---- MODULE Spec2Model ----
(***************************************************************************)
(* Model of the GTM decision pipeline (gtm_orchestrator.py and the stage   *)
(* agents it calls), of the negotiation auction (negotiation_agent.py) and *)
(* of the local-mode GrowthBook client (growthbook_mcp.py).                *)
(*                                                                         *)
(* Two orchestrators handle the same event side by side: one built with    *)
(* LangGraph present (self.graph is the compiled StateGraph) and one built *)
(* without it (self.graph is None, the sequential fallback).               *)
(*                                                                         *)
(* Modelling conventions                                                   *)
(*  - a Python dict is a function; a missing key is a key outside DOMAIN;  *)
(*  - None is the string NoneVal;                                          *)
(*  - email and domain are sequences of characters, so that strip, lower,  *)
(*    the "@" test and split are computed; other text fields are strings;  *)
(*  - icp_score, the one payload field the code converts with int(), is a  *)
(*    tagged value [int |-> n] or [text |-> s];                            *)
(*  - a confidence 0.9 is the integer 90 (percent);                        *)
(*  - the `timestamp` field of GTMState is left out: no stage reads it;    *)
(*  - money is an integer number of units of 0.00001 dollar.  The code     *)
(*    adds floats: the float sum of two amounts can lie a rounding error   *)
(*    off the decimal sum (0.05 + 0.10 is 0.15000000000000002), which      *)
(*    decides a comparison only when the decimal values are equal.  So a   *)
(*    comparison of a sum that may be inexact with an equal amount has     *)
(*    both outcomes in the model, and so has round(x, 4) of a value half   *)
(*    way between two multiples of 0.0001.                                 *)
(***************************************************************************)
EXTENDS Integers, Sequences, FiniteSets, TLC

VARIABLES
    state,      \* strategy -> GTMState of that orchestrator's run
    pc,         \* strategy -> position of the run inside handle_event
    visited,    \* strategy -> the stages entered so far, in order
    failure,    \* strategy -> the exception that left handle_event, or NoneVal
    auction,    \* the run_auction call: its position, its request and its response
    gb,         \* the process holding the GrowthBookClient singleton, its clock and its calls
    runs        \* two handle_event calls of one process, interleaved at their awaits

vars == <<state, pc, visited, failure, auction, gb, runs>>

NoneVal == "<None>"

EmptyMap == <<>>

Put(d, k, v) == [x \in (DOMAIN d) \cup {k} |-> IF x = k THEN v ELSE d[x]]

Range(s) == {s[i] : i \in DOMAIN s}

IsPrefix(s, t) == Len(s) <= Len(t) /\ SubSeq(t, 1, Len(s)) = s

(***************************************************************************)
(* Payload access.  Every key has one type in the payloads of the model.   *)
(***************************************************************************)
CharKeys == {"email", "domain"}

IntKeys == {"qa_score"}

BoolKeys == {"suspected_duplicate"}

\* Python truthiness of payload.get(k)
Truthy(p, k) ==
    /\ k \in DOMAIN p
    /\ IF k \in CharKeys THEN p[k] # <<>>
       ELSE IF k \in IntKeys THEN p[k] # 0
       ELSE IF k \in BoolKeys THEN p[k]
       ELSE IF k = "icp_score"
            THEN (IF "text" \in DOMAIN p[k] THEN p[k].text # "" ELSE p[k].int # 0)
       ELSE p[k] # ""

\* payload.get(k) or ""   for a text field
StrOrEmpty(p, k) == IF Truthy(p, k) THEN p[k] ELSE ""

\* payload.get(k) or ""   for a character-sequence field
CharsOrEmpty(p, k) == IF Truthy(p, k) THEN p[k] ELSE <<>>

\* str.lower() on the text values of the model
Lower(s) == CASE s = "POC" -> "poc" [] s = "Go_Live" -> "go_live" [] OTHER -> s

LowerChar(c) == CASE c = "A" -> "a" [] c = "B" -> "b" [] OTHER -> c

LowerChars(cs) == [i \in DOMAIN cs |-> LowerChar(cs[i])]

RECURSIVE LStrip(_)
LStrip(cs) == IF cs # <<>> /\ Head(cs) = " " THEN LStrip(Tail(cs)) ELSE cs

RECURSIVE RStrip(_)
RStrip(cs) ==
    IF cs # <<>> /\ cs[Len(cs)] = " " THEN RStrip(SubSeq(cs, 1, Len(cs) - 1)) ELSE cs

\* str.strip()
Strip(cs) == RStrip(LStrip(cs))

\* s.split("@", 1)[1]: what follows the first "@"
AfterFirstAt(cs) ==
    LET i == CHOOSE j \in DOMAIN cs : cs[j] = "@" /\ \A k \in 1..(j - 1) : cs[k] # "@"
    IN  SubSeq(cs, i + 1, Len(cs))

(***************************************************************************)
(* Workspace configuration: config/workspaces.json read by JSONConfigStore *)
(***************************************************************************)
MIN_REQUIRED_IDS ==
    {"notion_contacts_db", "notion_accounts_db", "notion_deals_db",
     "notion_tasks_db", "slack_ops_channel"}

\* sorted(list(...)) of the identifiers: their lexicographic order
SortedIds ==
    <<"notion_accounts_db", "notion_contacts_db", "notion_deals_db",
      "notion_tasks_db", "slack_ops_channel">>

DefaultDefinitionOfDone ==
    [poc |-> <<"problem", "success_criteria">>,
     closed_won |-> <<"signed_date", "amount">>]

\* The file's content: workspace_id -> WorkspaceConfig.  "ws_missing" is not in it.
WorkspaceFile ==
    [ws_full |->
        [mode |-> "notion_first",
         ids |-> MIN_REQUIRED_IDS,
         thresholds |-> EmptyMap,
         routing |-> [high_fit_owner |-> "alice", default_owner |-> "bob"]],
     ws_new |->
        [mode |-> "hybrid",
         ids |-> {"notion_contacts_db", "slack_ops_channel"},
         thresholds |-> [definition_of_done |-> [poc |-> <<"success_criteria", "problem">>]],
         routing |-> [default_owner |-> "carol"]]]

WorkspaceIds == {"ws_full", "ws_new", "ws_missing"}

\* JSONConfigStore.load: the config, or KeyError for an id not in the file
load(workspace_id) ==
    IF workspace_id \in DOMAIN WorkspaceFile
    THEN [raised |-> FALSE, cfg |-> WorkspaceFile[workspace_id]]
    ELSE [raised |-> TRUE, exc |-> "KeyError"]

\* dict.get(k) with None for a missing key
GetOrNone(d, k) == IF k \in DOMAIN d THEN d[k] ELSE NoneVal

(***************************************************************************)
(* Events.  The classifier and the reporting agent only test which         *)
(* keywords occur in the lower-cased event type; Keywords(et) is that set. *)
(***************************************************************************)
EventTypes ==
    {"deal_stage_changed", "deal_updated", "lead_created", "contact_deal",
     "qa_updated", "go_live", "weekly_digest", "cleanup", "ping", "Lead_QA"}

Keywords(et) ==
    CASE et = "deal_stage_changed" -> {"deal", "stage"}
      [] et = "deal_updated"       -> {"deal"}
      [] et = "lead_created"       -> {"lead"}
      [] et = "contact_deal"       -> {"contact", "deal"}
      [] et = "qa_updated"         -> {"qa"}
      [] et = "go_live"            -> {"go_live"}
      [] et = "weekly_digest"      -> {"weekly", "digest"}
      [] et = "cleanup"            -> {"cleanup"}
      [] et = "Lead_QA"            -> {"lead", "qa"}
      [] OTHER                     -> {}

IntVal(n) == [int |-> n]

TextVal(s) == [text |-> s]

\* The event payloads of the model, Payloads[1] .. Payloads[Len(Payloads)]
Payloads ==
    << EmptyMap,
      [stage |-> "poc"],
      [stage |-> "POC", problem |-> "churn", success_criteria |-> "nps", deal_id |-> "d1"],
      [email |-> <<" ", "A", "@", "b", ".", "c">>, icp_score |-> IntVal(85)],
      [email |-> <<"a", "@", "b", ".", "c">>, domain |-> <<"b", ".", "c">>,
       icp_score |-> IntVal(50), suspected_duplicate |-> TRUE],
      [stage |-> "go_live", qa_score |-> 90],
      [stage |-> "implementation", qa_score |-> 0, deal_id |-> "d2"],
      [lifecycle_stage |-> "closed_won", signed_date |-> "2024-01-01"],
      [icp_score |-> TextVal("high"), email |-> <<"a", "b">>],
      [icp_score |-> TextVal("70"), stage |-> ""],
      [stage |-> "poc", problem |-> "", success_criteria |-> "nps"],
      [email |-> <<"a", "@", "b", ".", "c">>, suspected_duplicate |-> TRUE] >>

(***************************************************************************)
(* The stage agents.  Each returns [raised |-> FALSE, decision |-> d] or   *)
(* [raised |-> TRUE, exc |-> name] when the Python code raises.            *)
(***************************************************************************)
Webhook(name, payload) == [type |-> "n8n_webhook", webhook |-> name, payload |-> payload]

Ok(d) == [raised |-> FALSE, decision |-> d]

Raise(e) == [raised |-> TRUE, exc |-> e]

\* GTMEventClassifierAgent.classify
classify(event_type, payload) ==
    LET et == Keywords(event_type)
    IN  IF "deal" \in et /\ ("stage" \in et \/ Truthy(payload, "stage"))
            THEN [category |-> "deal_stage_changed", confidence |-> 90]
        ELSE IF "contact" \in et \/ "lead" \in et
            THEN [category |-> "lead_created_or_updated", confidence |-> 80]
        ELSE IF "qa" \in et
            THEN [category |-> "qa_updated", confidence |-> 90]
        ELSE IF "go_live" \in et \/ "golive" \in et \/ "go-live" \in et
            THEN [category |-> "go_live", confidence |-> 95]
        ELSE IF "weekly" \in et \/ "digest" \in et
            THEN [category |-> "scheduled_digest", confidence |-> 95]
        ELSE IF "cleanup" \in et \/ "hygiene" \in et
            THEN [category |-> "scheduled_hygiene", confidence |-> 90]
        ELSE [category |-> "unknown", confidence |-> 40,
              raw |-> [event_type |-> event_type]]

\* SchemaDiscoveryAgent.ensure_workspace_schema
ensure_workspace_schema(workspace_id) ==
    LET r == load(workspace_id)
    IN  IF r.raised THEN Raise(r.exc)
        ELSE LET missing == SelectSeq(SortedIds, LAMBDA i : i \notin r.cfg.ids)
                 actions ==
                    IF missing # <<>>
                    THEN << Webhook("webhooks/provision_schema",
                                [workspace_id |-> workspace_id,
                                 mode |-> r.cfg.mode,
                                 missing_ids |-> missing]) >>
                    ELSE <<>>
             IN  Ok([missing_ids |-> missing, actions |-> actions,
                     notes |-> "Provisioning runs via deterministic n8n workflow."])

\* int(s) of a text value: the texts of the model that int() accepts
NumericTexts == {"70"}

\* int(payload.get("icp_score") or 0) raises ValueError
IcpRaises(payload) ==
    /\ Truthy(payload, "icp_score")
    /\ "text" \in DOMAIN payload["icp_score"]
    /\ payload["icp_score"].text \notin NumericTexts

\* int(payload.get("icp_score") or 0), when it does not raise
IcpScore(payload) ==
    IF ~Truthy(payload, "icp_score") THEN 0
    ELSE IF "int" \in DOMAIN payload["icp_score"] THEN payload["icp_score"].int
    ELSE 70

\* RoutingSLAAgent.evaluate
routing_evaluate(workspace_id, decisions, payload) ==
    LET r == load(workspace_id)
    IN  IF r.raised THEN Raise(r.exc)
        ELSE LET evt == IF "event" \in DOMAIN decisions THEN decisions["event"] ELSE EmptyMap
                 category == GetOrNone(evt, "category")
             IN  IF category \in {"lead_created_or_updated", "unknown"}
                 THEN IF IcpRaises(payload) THEN Raise("ValueError")
                      ELSE LET icp_score == IcpScore(payload)
                               owner == IF icp_score >= 70
                                        THEN GetOrNone(r.cfg.routing, "high_fit_owner")
                                        ELSE GetOrNone(r.cfg.routing, "default_owner")
                           IN  Ok([actions |->
                                    << Webhook("webhooks/route_and_sla",
                                         [workspace_id |-> workspace_id,
                                          owner |-> owner,
                                          icp_score |-> icp_score,
                                          record |-> payload]) >>])
                 ELSE Ok([actions |-> <<>>])

\* mutant of lifecycle_evaluate: the workspace's own table is not looked at
lifecycle_evaluate_ignores_workspace_table(workspace_id, payload) ==
    LET r == load(workspace_id)
    IN  IF r.raised THEN Raise(r.exc)
        ELSE LET stage == Lower(IF Truthy(payload, "stage") THEN payload["stage"]
                                ELSE StrOrEmpty(payload, "lifecycle_stage"))
                 required == IF stage \in DOMAIN DefaultDefinitionOfDone
                             THEN DefaultDefinitionOfDone[stage] ELSE <<>>
                 missing == SelectSeq(required, LAMBDA f : ~Truthy(payload, f))
                 actions ==
                    IF missing # <<>>
                    THEN << Webhook("webhooks/lifecycle_enforce",
                                [workspace_id |-> workspace_id,
                                 stage |-> stage,
                                 missing_fields |-> missing,
                                 record |-> payload]) >>
                    ELSE <<>>
             IN  Ok([stage |-> stage, missing_fields |-> missing, actions |-> actions])

\* LifecycleEnforcementAgent.evaluate
lifecycle_evaluate(workspace_id, payload) ==
    LET r == load(workspace_id)
    IN  IF r.raised THEN Raise(r.exc)
        ELSE LET rules == IF "definition_of_done" \in DOMAIN r.cfg.thresholds
                          THEN r.cfg.thresholds["definition_of_done"]
                          ELSE DefaultDefinitionOfDone
                 stage == Lower(IF Truthy(payload, "stage") THEN payload["stage"]
                                ELSE StrOrEmpty(payload, "lifecycle_stage"))
                 required == IF stage \in DOMAIN rules THEN rules[stage] ELSE <<>>
                 missing == SelectSeq(required, LAMBDA f : ~Truthy(payload, f))
                 actions ==
                    IF missing # <<>>
                    THEN << Webhook("webhooks/lifecycle_enforce",
                                [workspace_id |-> workspace_id,
                                 stage |-> stage,
                                 missing_fields |-> missing,
                                 record |-> payload]) >>
                    ELSE <<>>
             IN  Ok([stage |-> stage, missing_fields |-> missing, actions |-> actions])

\* mutant of hygiene_evaluate: the duplicate test is an elif of the backfill test
hygiene_evaluate_one_action_only(workspace_id, payload) ==
    LET email == LowerChars(Strip(CharsOrEmpty(payload, "email")))
        domain == LowerChars(Strip(CharsOrEmpty(payload, "domain")))
        backfill ==
            IF email # <<>> /\ domain = <<>> /\ "@" \in Range(email)
            THEN << Webhook("webhooks/hygiene_backfill",
                        [workspace_id |-> workspace_id,
                         domain |-> AfterFirstAt(email),
                         record |-> payload]) >>
            ELSE <<>>
        dedupe ==
            IF backfill = <<>> /\ Truthy(payload, "suspected_duplicate")
            THEN << Webhook("webhooks/dedupe_flag",
                        [workspace_id |-> workspace_id, record |-> payload]) >>
            ELSE <<>>
    IN  Ok([actions |-> backfill \o dedupe])

\* DataHygieneAgent.evaluate
hygiene_evaluate(workspace_id, payload) ==
    LET email == LowerChars(Strip(CharsOrEmpty(payload, "email")))
        domain == LowerChars(Strip(CharsOrEmpty(payload, "domain")))
        backfill ==
            IF email # <<>> /\ domain = <<>> /\ "@" \in Range(email)
            THEN << Webhook("webhooks/hygiene_backfill",
                        [workspace_id |-> workspace_id,
                         domain |-> AfterFirstAt(email),
                         record |-> payload]) >>
            ELSE <<>>
        dedupe ==
            IF Truthy(payload, "suspected_duplicate")
            THEN << Webhook("webhooks/dedupe_flag",
                        [workspace_id |-> workspace_id, record |-> payload]) >>
            ELSE <<>>
    IN  Ok([actions |-> backfill \o dedupe])

\* mutant of onboarding_evaluate: "go_live" is also a stage that creates tasks
onboarding_evaluate_tasks_at_go_live(workspace_id, payload) ==
    LET stage == Lower(StrOrEmpty(payload, "stage"))
        rec == [workspace_id |-> workspace_id, record |-> payload]
        tasks == IF stage \in {"poc", "implementation", "onboarding", "go_live"}
                 THEN << Webhook("webhooks/create_onboarding_tasks", rec) >> ELSE <<>>
        qa == IF "qa_score" \in DOMAIN payload
              THEN << Webhook("webhooks/update_qa_metrics", rec) >> ELSE <<>>
        handoff == IF stage \in {"go_live", "golive", "live"}
                   THEN << Webhook("webhooks/go_live_handoff", rec) >> ELSE <<>>
    IN  Ok([actions |-> tasks \o qa \o handoff])

\* OnboardingGoLiveAgent.evaluate
onboarding_evaluate(workspace_id, payload) ==
    LET stage == Lower(StrOrEmpty(payload, "stage"))
        rec == [workspace_id |-> workspace_id, record |-> payload]
        tasks == IF stage \in {"poc", "implementation", "onboarding"}
                 THEN << Webhook("webhooks/create_onboarding_tasks", rec) >> ELSE <<>>
        qa == IF "qa_score" \in DOMAIN payload
              THEN << Webhook("webhooks/update_qa_metrics", rec) >> ELSE <<>>
        handoff == IF stage \in {"go_live", "golive", "live"}
                   THEN << Webhook("webhooks/go_live_handoff", rec) >> ELSE <<>>
    IN  Ok([actions |-> tasks \o qa \o handoff])

\* ReportingAttributionAgent.evaluate
reporting_evaluate(workspace_id, event_type, payload) ==
    LET et == Keywords(event_type)
        digest == IF "weekly" \in et \/ "digest" \in et
                  THEN << Webhook("webhooks/weekly_digest",
                              [workspace_id |-> workspace_id]) >>
                  ELSE <<>>
        velocity == IF Truthy(payload, "deal_id") \/ Truthy(payload, "stage")
                    THEN << Webhook("webhooks/update_velocity_and_attribution",
                                [workspace_id |-> workspace_id, record |-> payload]) >>
                    ELSE <<>>
    IN  Ok([actions |-> digest \o velocity])

\* mutant of ops_evaluate: the alert is emitted whether or not errors is empty
ops_evaluate_always_alerts(workspace_id, decisions, actions, errors) ==
    Ok([actions |-> << Webhook("webhooks/ops_alert",
                          [workspace_id |-> workspace_id,
                           errors |-> errors,
                           decisions |-> decisions]) >>])

\* OpsSelfHealAgent.evaluate.  The payload holds the decisions dict itself;
\* the model holds its content at the time of the call.
ops_evaluate(workspace_id, decisions, actions, errors) ==
    LET extra == IF errors # <<>>
                 THEN << Webhook("webhooks/ops_alert",
                             [workspace_id |-> workspace_id,
                              errors |-> errors,
                              decisions |-> decisions]) >>
                 ELSE <<>>
    IN  Ok([actions |-> extra])

(***************************************************************************)
(* GTMOrchestrator: the stage methods.  Each takes the GTMState and gives  *)
(* [raised |-> FALSE, state |-> s'] or, when the agent raises before the   *)
(* state is written, [raised |-> TRUE, exc |-> e, state |-> s].            *)
(***************************************************************************)
Done(st) == [raised |-> FALSE, state |-> st]

Fail(e, st) == [raised |-> TRUE, exc |-> e, state |-> st]

\* mutant of Record: an action is left out when the list already holds one
\* of the same type with the same payload
Record_dedups(st, key, decision) ==
    LET new == IF "actions" \in DOMAIN decision THEN decision.actions ELSE <<>>
        held == {[type |-> a.type, payload |-> a.payload] : a \in Range(st.actions)}
    IN  [st EXCEPT !.decisions = Put(@, key, decision),
                   !.actions = @ \o SelectSeq(new, LAMBDA a :
                                   [type |-> a.type, payload |-> a.payload] \notin held)]

\* state["decisions"][key] = decision; state["actions"].extend(decision.get("actions", []))
Record(st, key, decision) ==
    [st EXCEPT !.decisions = Put(@, key, decision),
               !.actions = @ \o (IF "actions" \in DOMAIN decision
                                 THEN decision.actions ELSE <<>>)]

classify_event(st) ==
    Done([st EXCEPT !.decisions =
            Put(@, "event", classify(st.event_type, st.event_payload))])

\* mutant of schema_discovery: the agent's exception is caught and recorded
schema_discovery_records_failure(st) ==
    LET r == ensure_workspace_schema(st.workspace_id)
    IN  IF r.raised THEN Done([st EXCEPT !.errors = Append(@, r.exc)])
        ELSE Done(Record(st, "schema", r.decision))

schema_discovery(st) ==
    LET r == ensure_workspace_schema(st.workspace_id)
    IN  IF r.raised THEN Fail(r.exc, st) ELSE Done(Record(st, "schema", r.decision))

\* mutant of routing_sla: the decision is stored under the schema stage's key
routing_sla_writes_schema_key(st) ==
    LET r == routing_evaluate(st.workspace_id, st.decisions, st.event_payload)
    IN  IF r.raised THEN Fail(r.exc, st) ELSE Done(Record(st, "schema", r.decision))

routing_sla(st) ==
    LET r == routing_evaluate(st.workspace_id, st.decisions, st.event_payload)
    IN  IF r.raised THEN Fail(r.exc, st) ELSE Done(Record(st, "routing", r.decision))

lifecycle_enforcement(st) ==
    LET r == lifecycle_evaluate(st.workspace_id, st.event_payload)
    IN  IF r.raised THEN Fail(r.exc, st) ELSE Done(Record(st, "lifecycle", r.decision))

\* mutant of data_hygiene: actions is assigned the stage's actions, not extended
data_hygiene_assigns_actions(st) ==
    LET r == hygiene_evaluate(st.workspace_id, st.event_payload)
    IN  IF r.raised THEN Fail(r.exc, st)
        ELSE Done([st EXCEPT !.decisions = Put(@, "hygiene", r.decision),
                             !.actions = r.decision.actions])

data_hygiene(st) ==
    LET r == hygiene_evaluate(st.workspace_id, st.event_payload)
    IN  IF r.raised THEN Fail(r.exc, st) ELSE Done(Record(st, "hygiene", r.decision))

onboarding_go_live(st) ==
    LET r == onboarding_evaluate(st.workspace_id, st.event_payload)
    IN  IF r.raised THEN Fail(r.exc, st) ELSE Done(Record(st, "onboarding", r.decision))

reporting_attribution(st) ==
    LET r == reporting_evaluate(st.workspace_id, st.event_type, st.event_payload)
    IN  IF r.raised THEN Fail(r.exc, st) ELSE Done(Record(st, "reporting", r.decision))

ops_self_heal(st) ==
    LET r == ops_evaluate(st.workspace_id, st.decisions, st.actions, st.errors)
    IN  IF r.raised THEN Fail(r.exc, st) ELSE Done(Record(st, "ops", r.decision))

OnboardingCategories == {"deal_stage_changed", "qa_updated", "go_live"}

\* mutant of _needs_onboarding: "qa_updated" is missing from the set
needs_onboarding_without_qa(st) ==
    LET evt == IF "event" \in DOMAIN st.decisions THEN st.decisions["event"] ELSE EmptyMap
    IN  IF GetOrNone(evt, "category") \in {"deal_stage_changed", "go_live"}
        THEN "onboarding" ELSE "reporting"

\* GTMOrchestrator._needs_onboarding: reads state["decisions"] only
_needs_onboarding(st) ==
    LET evt == IF "event" \in DOMAIN st.decisions THEN st.decisions["event"] ELSE EmptyMap
    IN  IF GetOrNone(evt, "category") \in OnboardingCategories
        THEN "onboarding" ELSE "reporting"

(***************************************************************************)
(* The compiled StateGraph (_build_graph): nodes, edges, the conditional   *)
(* edge out of "hygiene", and the interpreter's step.                      *)
(***************************************************************************)
END == "__end__"

Nodes ==
    {"classify", "schema", "routing", "lifecycle", "hygiene", "onboarding",
     "reporting", "ops"}

\* wf.add_node(name, method)
NodeFn(n, st) ==
    CASE n = "classify"   -> classify_event(st)
      [] n = "schema"     -> schema_discovery(st)
      [] n = "routing"    -> routing_sla(st)
      [] n = "lifecycle"  -> lifecycle_enforcement(st)
      [] n = "hygiene"    -> data_hygiene(st)
      [] n = "onboarding" -> onboarding_go_live(st)
      [] n = "reporting"  -> reporting_attribution(st)
      [] n = "ops"        -> ops_self_heal(st)

\* wf.set_entry_point
EntryPoint == "classify"

\* wf.add_edge(a, b)
Edges ==
    [classify |-> "schema", schema |-> "routing", routing |-> "lifecycle",
     lifecycle |-> "hygiene", onboarding |-> "reporting", reporting |-> "ops",
     ops |-> END]

\* wf.add_conditional_edges("hygiene", self._needs_onboarding, {...})
ConditionalSource == "hygiene"

PathMap == [onboarding |-> "onboarding", reporting |-> "reporting"]

\* mutant of GraphNext: the conditional edge is lost, hygiene always leads to reporting
GraphNext_without_branch(n, st) ==
    IF n = ConditionalSource THEN "reporting" ELSE Edges[n]

\* the node that follows n once n has returned st
GraphNext(n, st) ==
    IF n = ConditionalSource THEN PathMap[_needs_onboarding(st)] ELSE Edges[n]

(***************************************************************************)
(* NegotiationAgent.run_auction                                            *)
(***************************************************************************)
UnitsPerDollar == 100000

\* round(x, 4) keeps multiples of 0.0001 dollar
RoundStep == 10

DefaultQuality == 50

Quorum == 2

\* round(x, 4): the nearest multiple of RoundStep; for a value half way
\* between two, the one the float's binary expansion is nearer to: either
Round4(x) ==
    LET q == x \div RoundStep
        r == x % RoundStep
    IN  IF 2 * r < RoundStep THEN {q * RoundStep}
        ELSE IF 2 * r > RoundStep THEN {(q + 1) * RoundStep}
        ELSE {q * RoundStep, (q + 1) * RoundStep}

\* total_cost + agent_cost is the float of the decimal sum for certain: the
\* total carries no error yet, and one operand is 0 or they are equal or opposite
ExactSum(total_cost, inexact, agent_cost) ==
    /\ ~inexact
    /\ \/ total_cost = 0
       \/ agent_cost = 0
       \/ total_cost = agent_cost
       \/ total_cost = -agent_cost

\* a budget_limit of 0 read as "no limit" (a falsy budget short-circuits the test)
WithinBudget_zero_is_unlimited(total_cost, inexact, agent_cost, budget_limit) ==
    IF budget_limit = 0 THEN {TRUE}
    ELSE IF total_cost + agent_cost = budget_limit
            /\ ~ExactSum(total_cost, inexact, agent_cost)
         THEN {TRUE, FALSE}
         ELSE {total_cost + agent_cost <= budget_limit}

\* total_cost + agent_cost <= budget_limit: the outcomes the float comparison can have
WithinBudget(total_cost, inexact, agent_cost, budget_limit) ==
    IF total_cost + agent_cost = budget_limit
       /\ ~ExactSum(total_cost, inexact, agent_cost)
    THEN {TRUE, FALSE}
    ELSE {total_cost + agent_cost <= budget_limit}

\* request.agent_bids is a dict in insertion order: a sequence of [agent, bid]
BidOf(bids, agent) ==
    LET i == CHOOSE j \in DOMAIN bids : bids[j].agent = agent IN bids[i].bid

\* quality / bid, or quality when bid <= 0, as the fraction num / den of a
\* ratio per unit of money (a bid of one dollar is UnitsPerDollar units)
Ratio(quality, bid) ==
    IF bid > 0 THEN [num |-> quality, den |-> bid]
    ELSE [num |-> quality, den |-> UnitsPerDollar]

RatioLess(a, b) == a.num * b.den < b.num * a.den

\* lines 85 to 91: value_ratios, in the insertion order of agent_bids
ValueRatios(request) ==
    [i \in DOMAIN request.agent_bids |->
        LET agent == request.agent_bids[i].agent
            bid == request.agent_bids[i].bid
            quality == IF agent \in DOMAIN request.quality_scores
                       THEN request.quality_scores[agent] ELSE DefaultQuality
        IN  [agent |-> agent, ratio |-> Ratio(quality, bid)]]

\* one item put into a list sorted by ratio, highest first: before the first
\* item of strictly lower ratio, so behind its equals
InsertDesc(sorted, x) ==
    LET lower == {j \in DOMAIN sorted : RatioLess(sorted[j].ratio, x.ratio)}
        at == IF lower = {} THEN Len(sorted) + 1
              ELSE CHOOSE j \in lower : \A k \in lower : j <= k
    IN  SubSeq(sorted, 1, at - 1) \o <<x>> \o SubSeq(sorted, at, Len(sorted))

\* sorted(items, key=ratio, reverse=True): stable, equal ratios keep their order.
\* (Equal ratios of the model's requests come from equal quality and bid, or
\* from bids <= 0, where the float ratios are equal as well.)
RECURSIVE SortedDesc(_)
SortedDesc(items) ==
    IF items = <<>> THEN <<>>
    ELSE InsertDesc(SortedDesc(SubSeq(items, 1, Len(items) - 1)), items[Len(items)])

\* lines 100 to 104: the scan from item k on; `inexact` tells whether
\* total_cost may carry a float rounding error.  The results the scan can have.
RECURSIVE Scan(_, _, _, _, _, _)
Scan(request, sorted_agents, k, selected, total_cost, inexact) ==
    IF k > Len(sorted_agents) THEN {[selected |-> selected, total_cost |-> total_cost]}
    ELSE LET agent == sorted_agents[k].agent
             agent_cost == BidOf(request.agent_bids, agent)
         IN  UNION {
               IF fits
               THEN Scan(request, sorted_agents, k + 1,
                         Append(selected, agent), total_cost + agent_cost,
                         ~ExactSum(total_cost, inexact, agent_cost))
               ELSE Scan(request, sorted_agents, k + 1, selected, total_cost, inexact)
               : fits \in WithinBudget(total_cost, inexact, agent_cost,
                                        request.budget_limit) }

\* NegotiationAgent.run_auction: the responses the call can return
run_auction(request) ==
    LET sorted_agents == SortedDesc(ValueRatios(request))
    IN  UNION {
          {[consensus_reached |-> Len(r.selected) >= Quorum,
            selected_agents |-> r.selected,
            total_cost |-> rounded,
            rationale |-> [selected |-> Len(r.selected),
                           budget |-> request.budget_limit]]
             : rounded \in Round4(r.total_cost)}
          : r \in Scan(request, sorted_agents, 1, <<>>, 0, FALSE) }

\* the requests of the model
BidOrders ==
    {<<>>, <<"A">>, <<"A", "B">>, <<"B", "A">>, <<"A", "B", "C">>, <<"C", "A", "B">>,
     <<"B", "C", "A">>}

BidValues == {-5000, 0, 6, 5000, 10000, 20000}

QualityValues == {50, 90, 95}

\* budget_limit is a spending limit (AGENT_MAX_COST_PER_LEAD, 0.25 by default)
Budgets == {0, 6, 15000, 20000, 25000}

Agents == {"A", "B", "C"}

\* NegotiationRequest
Request(order, b, q, budget) ==
    [lead_id |-> "lead-1",
     agent_bids |-> [i \in DOMAIN order |-> [agent |-> order[i], bid |-> b[i]]],
     quality_scores |-> q,
     budget_limit |-> budget]

NoResponse ==
    [consensus_reached |-> FALSE, selected_agents |-> <<>>, total_cost |-> 0,
     rationale |-> [selected |-> 0, budget |-> 0]]

AuctionIdle ==
    [pc |-> "idle",
     request |-> [lead_id |-> "", agent_bids |-> <<>>, quality_scores |-> EmptyMap,
                  budget_limit |-> 0],
     response |-> NoResponse]

\* no GrowthBookClient built, no concurrent handle_event calls
GrowthBookIdle == [pc |-> "idle"]

RunsIdle == [pc |-> "idle"]

(***************************************************************************)
(* handle_event                                                            *)
(***************************************************************************)
Strategies == {"graph", "fallback"}

\* the `initial` dict of handle_event; errs is [] there
InitialState(w, e, p, errs) ==
    [workspace_id |-> w, event_type |-> e, event_payload |-> p,
     decisions |-> EmptyMap, actions |-> <<>>, approved |-> FALSE, errors |-> errs]

InitWith(ErrorLists) ==
    \E w \in WorkspaceIds, e \in EventTypes, i \in DOMAIN Payloads, errs \in ErrorLists :
        /\ state = [s \in Strategies |-> InitialState(w, e, Payloads[i], errs)]
        /\ pc = [s \in Strategies |-> IF s = "graph" THEN EntryPoint ELSE "l164"]
        /\ visited = [s \in Strategies |-> <<>>]
        /\ failure = [s \in Strategies |-> NoneVal]
        /\ auction = AuctionIdle
        /\ gb = GrowthBookIdle
        /\ runs = RunsIdle

Init == InitWith({<<>>})

\* run s calls a stage method, which gave r; the run goes on at `next`
Call(s, stage, r, next) ==
    /\ visited' = [visited EXCEPT ![s] = Append(@, stage)]
    /\ state' = [state EXCEPT ![s] = r.state]
    /\ IF r.raised
       THEN /\ pc' = [pc EXCEPT ![s] = "raised"]
            /\ failure' = [failure EXCEPT ![s] = r.exc]
       ELSE /\ pc' = [pc EXCEPT ![s] = next]
            /\ UNCHANGED failure
    /\ UNCHANGED <<auction, gb, runs>>

\* self.graph.ainvoke(initial): one node per step
GraphStep ==
    /\ pc["graph"] \in Nodes
    /\ LET n == pc["graph"]
           r == NodeFn(n, state["graph"])
       IN  Call("graph", n, r, GraphNext(n, r.state))

GraphReturn ==
    /\ pc["graph"] = END
    /\ pc' = [pc EXCEPT !["graph"] = "returned"]
    /\ UNCHANGED <<state, visited, failure, auction, gb, runs>>

\* the sequential fallback, lines 164 to 173
Fallback_classify ==
    /\ pc["fallback"] = "l164"
    /\ Call("fallback", "classify", classify_event(state["fallback"]), "l165")

Fallback_schema ==
    /\ pc["fallback"] = "l165"
    /\ Call("fallback", "schema", schema_discovery(state["fallback"]), "l166")

Fallback_routing ==
    /\ pc["fallback"] = "l166"
    /\ Call("fallback", "routing", routing_sla(state["fallback"]), "l167")

Fallback_lifecycle ==
    /\ pc["fallback"] = "l167"
    /\ Call("fallback", "lifecycle", lifecycle_enforcement(state["fallback"]), "l168")

Fallback_hygiene ==
    /\ pc["fallback"] = "l168"
    /\ Call("fallback", "hygiene", data_hygiene(state["fallback"]), "l169")

Fallback_branch ==
    /\ pc["fallback"] = "l169"
    /\ pc' = [pc EXCEPT !["fallback"] =
                IF _needs_onboarding(state["fallback"]) = "onboarding"
                THEN "l170" ELSE "l171"]
    /\ UNCHANGED <<state, visited, failure, auction, gb, runs>>

Fallback_onboarding ==
    /\ pc["fallback"] = "l170"
    /\ Call("fallback", "onboarding", onboarding_go_live(state["fallback"]), "l171")

Fallback_reporting ==
    /\ pc["fallback"] = "l171"
    /\ Call("fallback", "reporting", reporting_attribution(state["fallback"]), "l172")

Fallback_ops ==
    /\ pc["fallback"] = "l172"
    /\ Call("fallback", "ops", ops_self_heal(state["fallback"]), "l173")

Fallback_return ==
    /\ pc["fallback"] = "l173"
    /\ pc' = [pc EXCEPT !["fallback"] = "returned"]
    /\ UNCHANGED <<state, visited, failure, auction, gb, runs>>

Next ==
    \/ GraphStep
    \/ GraphReturn
    \/ Fallback_classify
    \/ Fallback_schema
    \/ Fallback_routing
    \/ Fallback_lifecycle
    \/ Fallback_hygiene
    \/ Fallback_branch
    \/ Fallback_onboarding
    \/ Fallback_reporting
    \/ Fallback_ops
    \/ Fallback_return

Spec == Init /\ [][Next]_vars

\* a caller-supplied errors list, for the stage methods applied to a state
\* that already holds errors (handle_event itself always starts from [])
ErrorLists == {<<>>, <<"timeout">>, <<"timeout", "canceled">>}

InitStages == InitWith(ErrorLists)

SpecStages == InitStages /\ [][Next]_vars

Ended(s) == pc[s] \in {"returned", "raised"}

(***************************************************************************)
(* Properties of the pipeline                                              *)
(***************************************************************************)
\* the category the classify stage decided, once it has
Category(s) ==
    IF "event" \in DOMAIN state[s].decisions
    THEN state[s].decisions["event"].category ELSE NoneVal

OrderWithOnboarding ==
    <<"classify", "schema", "routing", "lifecycle", "hygiene", "onboarding",
      "reporting", "ops">>

OrderWithoutOnboarding ==
    <<"classify", "schema", "routing", "lifecycle", "hygiene", "reporting", "ops">>

\* the decisions key each stage writes
DecisionKey(stage) == IF stage = "classify" THEN "event" ELSE stage

IsOpsAlert(a) == a.webhook = "webhooks/ops_alert"

\* C1: handle_event never raises: whatever the workspace_id, event_type and
\* payload, no run ends with an exception leaving handle_event.
C1_NeverRaises ==
    \A s \in Strategies : pc[s] # "raised" /\ failure[s] = NoneVal

\* C2: accumulate, don't abort: a run in which a stage has failed has the
\* failure in its errors list and still holds the decisions of every stage
\* that follows the failing one.
C2_AccumulateDontAbort ==
    \A s \in Strategies :
        failure[s] # NoneVal =>
            /\ state[s].errors # <<>>
            /\ LET failed == visited[s][Len(visited[s])]
                   later == {n \in {"routing", "lifecycle", "hygiene", "reporting", "ops"} :
                               \E i, j \in DOMAIN OrderWithoutOnboarding :
                                   /\ OrderWithoutOnboarding[i] = failed
                                   /\ OrderWithoutOnboarding[j] = n
                                   /\ i < j}
               IN  later \subseteq DOMAIN state[s].decisions

\* C3: the compiled graph and the sequential fallback are interchangeable:
\* on the same input they visit the same stages in the same order, and once
\* both have ended they ended the same way with the same decisions and actions.
C3_StrategiesAgree ==
    /\ \/ IsPrefix(visited["graph"], visited["fallback"])
       \/ IsPrefix(visited["fallback"], visited["graph"])
    /\ (Ended("graph") /\ Ended("fallback")) =>
            /\ visited["graph"] = visited["fallback"]
            /\ pc["graph"] = pc["fallback"]
            /\ failure["graph"] = failure["fallback"]
            /\ state["graph"].decisions = state["fallback"].decisions
            /\ state["graph"].actions = state["fallback"].actions

C3_Witness ==
    /\ pc["graph"] = "returned" /\ pc["fallback"] = "returned"
    /\ "onboarding" \in Range(visited["graph"])
    /\ Len(state["fallback"].actions) >= 3

\* C4: every run executes the stages in the fixed order classify, schema,
\* routing, lifecycle, hygiene, (onboarding,) reporting, self-heal, each once,
\* and a run that has ended executed self-heal last.
C4_FixedOrder ==
    \A s \in Strategies :
        /\ \/ IsPrefix(visited[s], OrderWithOnboarding)
           \/ IsPrefix(visited[s], OrderWithoutOnboarding)
        /\ Ended(s) => visited[s] \in {OrderWithOnboarding, OrderWithoutOnboarding}

\* C5: after hygiene, onboarding is visited exactly when the classify
\* category is deal_stage_changed, qa_updated or go_live, and then right
\* after hygiene and before reporting; otherwise it is skipped and the
\* decisions hold no onboarding entry ("deal_stage_changed" visits it,
\* "lead_created" does not).
C5_OnboardingBranch ==
    \A s \in Strategies :
        LET v == visited[s]
            onb == "onboarding" \in Range(v)
        IN  /\ onb => /\ Category(s) \in OnboardingCategories
                      /\ Len(v) >= 6 /\ v[5] = "hygiene" /\ v[6] = "onboarding"
            /\ "reporting" \in Range(v) =>
                    /\ onb <=> Category(s) \in OnboardingCategories
                    /\ \A i, j \in DOMAIN v :
                            (v[i] = "onboarding" /\ v[j] = "reporting") => i < j
            /\ ("onboarding" \in DOMAIN state[s].decisions) <=> onb
            /\ pc[s] = "returned" =>
                    /\ state[s].event_type = "deal_stage_changed" => onb
                    /\ state[s].event_type = "lead_created" =>
                            "onboarding" \notin DOMAIN state[s].decisions

C5_Witness ==
    /\ pc["fallback"] = "returned" /\ pc["graph"] = "returned"
    /\ state["fallback"].event_type = "qa_updated"
    /\ "onboarding" \in DOMAIN state["fallback"].decisions
    /\ "onboarding" \in DOMAIN state["graph"].decisions

\* C6: decisions are write-once: a step of a run never changes or removes
\* an entry that decisions already holds.
C6_DecisionsWriteOnce ==
    [][\A s \in Strategies :
          \A k \in DOMAIN state[s].decisions :
              /\ k \in DOMAIN state'[s].decisions
              /\ state'[s].decisions[k] = state[s].decisions[k]]_vars

C6_Witness ==
    \E s \in Strategies :
        /\ pc[s] = "returned"
        /\ {DecisionKey(n) : n \in Nodes} \subseteq DOMAIN state[s].decisions

\* C7: actions is append-only: across every step of a run the old actions
\* list is a prefix of the new one.
C7_ActionsAppendOnly ==
    [][\A s \in Strategies : IsPrefix(state[s].actions, state'[s].actions)]_vars

C7_Witness ==
    \E s \in Strategies :
        /\ pc[s] = "returned"
        /\ Len(state[s].actions) >= 3
        /\ state[s].decisions["hygiene"].actions # <<>>
        /\ state[s].decisions["schema"].actions # <<>>

\* C8: once self-heal has run, actions holds exactly one ops alert if errors
\* is non-empty and none otherwise; the alert is the last action and carries
\* the errors and every decision recorded before self-heal; before self-heal
\* runs no action is an ops alert.
C8_OpsAlert ==
    \A s \in Strategies :
        LET st == state[s]
            alerts == SelectSeq(st.actions, IsOpsAlert)
        IN  IF "ops" \notin Range(visited[s])
            THEN alerts = <<>>
            ELSE /\ Len(alerts) = (IF st.errors # <<>> THEN 1 ELSE 0)
                 /\ st.errors # <<>> =>
                        /\ st.actions[Len(st.actions)] = alerts[1]
                        /\ alerts[1].payload.errors = st.errors
                        /\ alerts[1].payload.decisions =
                              [k \in (DOMAIN st.decisions) \ {"ops"} |-> st.decisions[k]]
                        /\ {DecisionKey(n) : n \in Range(visited[s]) \ {"ops"}}
                              = DOMAIN alerts[1].payload.decisions

C8_Witness ==
    \E s \in Strategies :
        /\ pc[s] = "returned"
        /\ Len(state[s].errors) = 2
        /\ Len(state[s].actions) >= 2
        /\ IsOpsAlert(state[s].actions[Len(state[s].actions)])

(***************************************************************************)
(* The auction: run_auction called on any request of the model.  It has no *)
(* await inside, so the call is one step.                                  *)
(***************************************************************************)
InitAuction ==
    /\ state = [s \in Strategies |-> InitialState("ws_full", "ping", EmptyMap, <<>>)]
    /\ pc = [s \in Strategies |-> "idle"]
    /\ visited = [s \in Strategies |-> <<>>]
    /\ failure = [s \in Strategies |-> NoneVal]
    /\ gb = GrowthBookIdle
    /\ runs = RunsIdle
    /\ \E order \in BidOrders, scored \in SUBSET Agents, budget \in Budgets :
           \E b \in [DOMAIN order -> BidValues], q \in [scored -> QualityValues] :
               auction = [pc |-> "called", request |-> Request(order, b, q, budget),
                          response |-> NoResponse]

RunAuction ==
    /\ auction.pc = "called"
    /\ \E response \in run_auction(auction.request) :
           auction' = [auction EXCEPT !.pc = "returned", !.response = response]
    /\ UNCHANGED <<state, pc, visited, failure, gb, runs>>

NextAuction == RunAuction

SpecAuction == InitAuction /\ [][NextAuction]_vars

(***************************************************************************)
(* Properties of the auction                                               *)
(***************************************************************************)
\* C9: for every budget and every bid and quality map, the total_cost that
\* run_auction returns is at most the budget.
C9_TotalWithinBudget ==
    auction.pc = "returned" =>
        auction.response.total_cost <= auction.request.budget_limit

\* The reference greedy of the claim, on the request of the call: bidder i is
\* the i-th entry of the bids map.
RefBid(i) == auction.request.agent_bids[i].bid

RefQuality(i) == auction.request.quality_scores[auction.request.agent_bids[i].agent]

\* ratio of bidder i > ratio of bidder j, the ratio being quality / cost in
\* dollars, or quality when cost <= 0
RefRatioGreater(i, j) ==
    CASE RefBid(i) > 0 /\ RefBid(j) > 0 -> RefQuality(i) * RefBid(j) > RefQuality(j) * RefBid(i)
      [] RefBid(i) > 0 /\ RefBid(j) <= 0 -> RefQuality(i) * UnitsPerDollar > RefQuality(j) * RefBid(i)
      [] RefBid(i) <= 0 /\ RefBid(j) > 0 -> RefQuality(i) * RefBid(j) > RefQuality(j) * UnitsPerDollar
      [] OTHER -> RefQuality(i) > RefQuality(j)

\* bidder i comes before bidder j: higher ratio, or the same ratio and earlier in the map
RefBefore(i, j) ==
    \/ RefRatioGreater(i, j)
    \/ ~RefRatioGreater(j, i) /\ i < j

RefOrder ==
    LET n == Len(auction.request.agent_bids)
    IN  [k \in 1..n |->
            CHOOSE i \in 1..n : Cardinality({j \in 1..n : RefBefore(j, i)}) = k - 1]

\* the cost accepted among the first k bidders of the order
RefSpent ==
    LET n == Len(auction.request.agent_bids)
        spent[k \in 0..n] ==
            IF k = 0 THEN 0
            ELSE IF spent[k - 1] + RefBid(RefOrder[k]) <= auction.request.budget_limit
                 THEN spent[k - 1] + RefBid(RefOrder[k])
                 ELSE spent[k - 1]
    IN  spent

RefAccepted(k) ==
    RefSpent[k - 1] + RefBid(RefOrder[k]) <= auction.request.budget_limit

RefSelected ==
    LET n == Len(auction.request.agent_bids)
        kept == SelectSeq([k \in 1..n |-> k], RefAccepted)
    IN  [m \in DOMAIN kept |-> auction.request.agent_bids[RefOrder[kept[m]]].agent]

\* C10: run_auction returns the reference greedy's result: the agents in
\* descending ratio order (ties in the map's order) that fit the budget left
\* when their turn comes, total_cost the sum of their bids, and
\* consensus_reached iff at least 2 are selected; bids A:0.05, B:0.10,
\* C:0.20 with quality 90, 95, 50 and budget 0.20 give A, B, 0.15, true.
C10_MatchesReferenceGreedy ==
    (/\ auction.pc = "returned"
     /\ \A i \in DOMAIN auction.request.agent_bids :
            auction.request.agent_bids[i].agent \in DOMAIN auction.request.quality_scores)
    => /\ auction.response.selected_agents = RefSelected
       /\ auction.response.total_cost = RefSpent[Len(auction.request.agent_bids)]
       /\ auction.response.consensus_reached = (Len(RefSelected) >= 2)
       /\ (/\ auction.request.agent_bids =
                 <<[agent |-> "A", bid |-> 5000], [agent |-> "B", bid |-> 10000],
                   [agent |-> "C", bid |-> 20000]>>
           /\ auction.request.quality_scores = [A |-> 90, B |-> 95, C |-> 50]
           /\ auction.request.budget_limit = 20000)
          => /\ auction.response.selected_agents = <<"A", "B">>
             /\ auction.response.total_cost = 15000
             /\ auction.response.consensus_reached

\* C11: with budget 0, run_auction returns an empty selection and
\* consensus_reached false, for every bid and quality map.
C11_ZeroBudgetSelectsNothing ==
    (auction.pc = "returned" /\ auction.request.budget_limit = 0)
    => /\ auction.response.selected_agents = <<>>
       /\ ~auction.response.consensus_reached

\* C11 as amended: with budget 0 and every bid above 0, run_auction returns
\* an empty selection, total_cost 0 and consensus_reached false, for every
\* quality map.
C11_ZeroBudgetPositiveBids ==
    (/\ auction.pc = "returned"
     /\ auction.request.budget_limit = 0
     /\ \A i \in DOMAIN auction.request.agent_bids : auction.request.agent_bids[i].bid > 0)
    => /\ auction.response.selected_agents = <<>>
       /\ auction.response.total_cost = 0
       /\ ~auction.response.consensus_reached

C11_Witness ==
    /\ auction.pc = "returned"
    /\ auction.request.budget_limit = 0
    /\ Len(auction.request.agent_bids) >= 2
    /\ \A i \in DOMAIN auction.request.agent_bids : auction.request.agent_bids[i].bid > 0
    /\ DOMAIN auction.request.quality_scores # {}
    /\ auction.response.selected_agents = <<>>

(***************************************************************************)
(* GrowthBookClient (growthbook_mcp.py) in local mode.                     *)
(*  - a registry dict is the sequence of its values in insertion order;    *)
(*  - a datetime is At(t), t in clock ticks, TicksPerDay of them a day;    *)
(*    an Optional field that is None is Nothing;                           *)
(*  - attribute and rule values are tagged: IntVal(n), Chars(cs), a text   *)
(*    as its sequence of characters, ListVal(s);                           *)
(*  - description, status, environment, created_at and updated_at of a     *)
(*    flag, and name, hypothesis, metrics and created_at of an experiment  *)
(*    are left out: no operation reads them but the to_dict conversions.   *)
(***************************************************************************)
Nothing == [none |-> TRUE]

At(t) == [at |-> t]

Chars(cs) == [chars |-> cs]

ListVal(s) == [list |-> s]

\* timedelta.days counts whole days
TicksPerDay == 2

\* d.get(key), None when the key is missing
Get(d, key) ==
    IF \E i \in DOMAIN d : d[i].key = key
    THEN d[CHOOSE i \in DOMAIN d : d[i].key = key]
    ELSE Nothing

\* key in d
Has(d, key) == \E i \in DOMAIN d : d[i].key = key

\* d[key] = v: an existing key keeps its place, a new one goes last
Assign(d, key, v) ==
    IF Has(d, key)
    THEN [i \in DOMAIN d |-> IF d[i].key = key THEN v ELSE d[i]]
    ELSE Append(d, v)

\* FeatureFlag(key=..., enabled=..., default_value=..., rules=...)
FeatureFlag(key, enabled, default_value, rules) ==
    [key |-> key, enabled |-> enabled, default_value |-> default_value,
     rules |-> rules, last_evaluated |-> Nothing]

\* FeatureFlag.is_stale at clock `now`
is_stale(feature, now, days) ==
    IF feature.last_evaluated = Nothing THEN TRUE
    ELSE (now - feature.last_evaluated.at) \div TicksPerDay > days

DefaultStaleDays == 30

DynamicConfig(key, value) == [key |-> key, value |-> value]

\* GrowthBookClient._init_default_features
DefaultFeatures ==
    << FeatureFlag("enable_research_agent", TRUE, [bool |-> TRUE], <<>>),
       FeatureFlag("enable_copywriting_agent", TRUE, [bool |-> TRUE], <<>>),
       FeatureFlag("enable_qualifier_agent", TRUE, [bool |-> TRUE], <<>>),
       FeatureFlag("enable_timing_agent", TRUE, [bool |-> TRUE], <<>>),
       FeatureFlag("enable_negotiation_agent", TRUE, [bool |-> TRUE], <<>>),
       FeatureFlag("enable_approval_agent", TRUE, [bool |-> TRUE], <<>>),
       FeatureFlag("enable_x402_payments", FALSE, [bool |-> FALSE], <<>>) >>

DefaultConfigs ==
    << DynamicConfig("lead_qualification_config",
                     [min_qualification_score |-> 60, auto_approve_threshold |-> 90,
                      research_quality_threshold |-> 70]),
       DynamicConfig("negotiation_parameters",
                     [max_discount_percent |-> 15, min_agents_for_consensus |-> 2]),
       DynamicConfig("email_generation_config",
                     [variants_count |-> 3, max_subject_length |-> 60,
                      max_body_length |-> 200]) >>

\* GrowthBookClient(local_mode=True)
GrowthBookClient ==
    [_features |-> DefaultFeatures, _experiments |-> <<>>,
     _configs |-> DefaultConfigs, _evaluation_log |-> <<>>]

\* a call's outcome: the client after it and what it returned or raised
Returns(self, result) == [self |-> self, raised |-> FALSE, result |-> result]

Raises(self, e) == [self |-> self, raised |-> TRUE, exc |-> e]

\* GrowthBookClient._feature_to_dict
_feature_to_dict(feature, now) ==
    [key |-> feature.key, enabled |-> feature.enabled,
     defaultValue |-> feature.default_value, rules |-> feature.rules,
     lastEvaluated |-> feature.last_evaluated,
     isStale |-> is_stale(feature, now, DefaultStaleDays)]

\* GrowthBookClient._log_evaluation
_log_evaluation(self, now, key, value, attributes) ==
    [self EXCEPT !._evaluation_log =
        Append(@, [timestamp |-> At(now), feature_key |-> key, value |-> value,
                   attributes |-> attributes])]

\* str(attr_value): the decimal digits of a non-negative int, a text as it is
RECURSIVE Digits(_)
Digits(n) ==
    LET d == <<"0", "1", "2", "3", "4", "5", "6", "7", "8", "9">>[(n % 10) + 1]
    IN  IF n < 10 THEN <<d>> ELSE Append(Digits(n \div 10), d)

Str(v) == IF "int" \in DOMAIN v THEN Digits(v.int) ELSE v.chars

\* sub in text, for two character sequences
Contains(sub, text) ==
    \E i \in 1..(Len(text) - Len(sub) + 1) : SubSeq(text, i, i + Len(sub) - 1) = sub

\* GrowthBookClient._evaluate_rule.  The operands of greater_than and
\* less_than are ints, the target of contains is a text and the target of
\* `in` a list in the rules of the model (Python raises TypeError otherwise).
_evaluate_rule(rule, attributes) ==
    LET condition == IF "condition" \in DOMAIN rule THEN rule.condition ELSE EmptyMap
        operator == IF "operator" \in DOMAIN condition THEN condition.operator ELSE "equals"
        target_value == IF "value" \in DOMAIN condition THEN condition.value ELSE Nothing
    IN  IF \/ "attribute" \notin DOMAIN condition
           \/ condition.attribute = ""
           \/ condition.attribute \notin DOMAIN attributes
        THEN FALSE
        ELSE LET attr_value == attributes[condition.attribute]
             IN  CASE operator = "equals" -> attr_value = target_value
                   [] operator = "not_equals" -> attr_value # target_value
                   [] operator = "contains" -> Contains(target_value.chars, Str(attr_value))
                   [] operator = "greater_than" -> attr_value.int > target_value.int
                   [] operator = "less_than" -> attr_value.int < target_value.int
                   [] operator = "in" -> attr_value \in Range(target_value.list)
                   [] OTHER -> FALSE

\* `attributes` is truthy: not None and not {}
AttributesGiven(attributes) == attributes # Nothing /\ DOMAIN attributes # {}

\* the loop of lines 332 to 334 from rule i on: the value returned inside
\* the loop, or Nothing when the loop ends without a match
RECURSIVE FirstMatch(_, _, _)
FirstMatch(feature, attributes, i) ==
    IF i > Len(feature.rules) THEN Nothing
    ELSE IF _evaluate_rule(feature.rules[i], attributes)
         THEN [value |-> IF "value" \in DOMAIN feature.rules[i]
                         THEN feature.rules[i].value ELSE feature.enabled]
         ELSE FirstMatch(feature, attributes, i + 1)

\* the last matching rule wins
RECURSIVE LastMatch(_, _, _)
LastMatch(feature, attributes, i) ==
    IF i > Len(feature.rules) THEN Nothing
    ELSE LET later == LastMatch(feature, attributes, i + 1)
         IN  IF later # Nothing THEN later
             ELSE IF _evaluate_rule(feature.rules[i], attributes)
                  THEN [value |-> IF "value" \in DOMAIN feature.rules[i]
                                  THEN feature.rules[i].value ELSE feature.enabled]
                  ELSE Nothing

\* is_on that records the evaluation only when a targeting rule decided it
is_on_marks_rule_hits_only(self, now, key, attributes) ==
    LET feature == Get(self._features, key)
    IN  IF feature = Nothing THEN Returns(self, FALSE)
        ELSE LET hit == IF feature.rules # <<>> /\ AttributesGiven(attributes)
                        THEN FirstMatch(feature, attributes, 1) ELSE Nothing
                 evaluated == [feature EXCEPT !.last_evaluated = At(now)]
                 marked == [self EXCEPT !._features = Assign(@, key, evaluated)]
                 logged == _log_evaluation(marked, now, key, feature.enabled, attributes)
             IN  IF hit # Nothing THEN Returns(logged, hit.value)
                 ELSE Returns(self, feature.enabled)

\* is_on whose rule loop keeps the last match
is_on_last_match_wins(self, now, key, attributes) ==
    LET feature == Get(self._features, key)
    IN  IF feature = Nothing THEN Returns(self, FALSE)
        ELSE LET evaluated == [feature EXCEPT !.last_evaluated = At(now)]
                 marked == [self EXCEPT !._features = Assign(@, key, evaluated)]
                 logged == _log_evaluation(marked, now, key, feature.enabled, attributes)
                 hit == IF feature.rules # <<>> /\ AttributesGiven(attributes)
                        THEN LastMatch(feature, attributes, 1) ELSE Nothing
             IN  IF hit # Nothing THEN Returns(logged, hit.value)
                 ELSE Returns(logged, feature.enabled)

\* GrowthBookClient.is_on
is_on(self, now, key, attributes) ==
    LET feature == Get(self._features, key)
    IN  IF feature = Nothing THEN Returns(self, FALSE)
        ELSE LET evaluated == [feature EXCEPT !.last_evaluated = At(now)]
                 marked == [self EXCEPT !._features = Assign(@, key, evaluated)]
                 logged == _log_evaluation(marked, now, key, feature.enabled, attributes)
                 hit == IF feature.rules # <<>> /\ AttributesGiven(attributes)
                        THEN FirstMatch(feature, attributes, 1) ELSE Nothing
             IN  IF hit # Nothing THEN Returns(logged, hit.value)
                 ELSE Returns(logged, feature.enabled)

\* GrowthBookClient.get_feature_value
get_feature_value(self, now, key, default, attributes) ==
    LET feature == Get(self._features, key)
    IN  IF feature = Nothing THEN Returns(self, default)
        ELSE LET evaluated == [feature EXCEPT !.last_evaluated = At(now)]
                 marked == [self EXCEPT !._features = Assign(@, key, evaluated)]
                 logged == _log_evaluation(marked, now, key, feature.default_value, attributes)
             IN  Returns(logged, IF feature.default_value # Nothing
                                 THEN feature.default_value ELSE default)

\* mutant of get_stale_flags: listing a flag counts as an evaluation of it
get_stale_flags_touches(self, now, days) ==
    LET stale == SelectSeq(self._features, LAMBDA f : is_stale(f, now, days))
        touched == [i \in DOMAIN self._features |->
                      IF is_stale(self._features[i], now, days)
                      THEN [self._features[i] EXCEPT !.last_evaluated = At(now)]
                      ELSE self._features[i]]
    IN  Returns([self EXCEPT !._features = touched],
                [i \in DOMAIN stale |-> _feature_to_dict(stale[i], now)])

\* GrowthBookClient.get_stale_flags
get_stale_flags(self, now, days) ==
    LET stale == SelectSeq(self._features, LAMBDA f : is_stale(f, now, days))
    IN  Returns(self, [i \in DOMAIN stale |-> _feature_to_dict(stale[i], now)])

\* GrowthBookClient.get_feature_flags
get_feature_flags(self, now) ==
    Returns(self, [i \in DOMAIN self._features |-> _feature_to_dict(self._features[i], now)])

\* GrowthBookClient.get_feature_flag
get_feature_flag(self, now, key) ==
    LET feature == Get(self._features, key)
    IN  Returns(self, IF feature # Nothing THEN _feature_to_dict(feature, now) ELSE Nothing)

\* GrowthBookClient.create_feature_flag; rules is Nothing or ListVal(the rules)
\* mutant of create_feature_flag: a flag that exists is updated in place
create_feature_flag_updates_in_place(self, now, key, enabled, default_value, rules) ==
    LET given == IF rules = Nothing \/ rules.list = <<>> THEN <<>> ELSE rules.list
        feature == IF Has(self._features, key)
                   THEN [Get(self._features, key) EXCEPT
                            !.enabled = enabled, !.default_value = default_value,
                            !.rules = given]
                   ELSE FeatureFlag(key, enabled, default_value, given)
    IN  Returns([self EXCEPT !._features = Assign(@, key, feature)],
                _feature_to_dict(feature, now))

create_feature_flag(self, now, key, enabled, default_value, rules) ==
    LET feature == FeatureFlag(key, enabled, default_value,
                               IF rules = Nothing \/ rules.list = <<>>
                               THEN <<>> ELSE rules.list)
    IN  Returns([self EXCEPT !._features = Assign(@, key, feature)],
                _feature_to_dict(feature, now))

\* GrowthBookClient.update_feature_flag; an argument is Nothing for None,
\* or [bool |-> b] for enabled and ListVal(the rules) for rules
update_feature_flag(self, now, key, enabled, default_value, rules) ==
    IF ~Has(self._features, key) THEN Raises(self, "ValueError")
    ELSE LET feature == Get(self._features, key)
             f1 == IF enabled # Nothing THEN [feature EXCEPT !.enabled = enabled.bool]
                   ELSE feature
             f2 == IF default_value # Nothing THEN [f1 EXCEPT !.default_value = default_value]
                   ELSE f1
             f3 == IF rules # Nothing THEN [f2 EXCEPT !.rules = rules.list] ELSE f2
         IN  Returns([self EXCEPT !._features = Assign(@, key, f3)],
                     _feature_to_dict(f3, now))

(***************************************************************************)
(* Experiments                                                             *)
(***************************************************************************)
DefaultWeight == 50

DefaultTrafficPercent == 100

BucketCount == 100

\* create_experiment's variations when none are given
DefaultVariations ==
    << [key |-> "control", name |-> "Control", weight |-> 50],
       [key |-> "treatment", name |-> "Treatment", weight |-> 50] >>

\* variation.get("weight", 50)
WeightOf(variation) ==
    IF "weight" \in DOMAIN variation THEN variation.weight ELSE DefaultWeight

\* Experiment(key=..., variations=..., weights=..., traffic_percent=...)
Experiment(key, variations, traffic_percent) ==
    [key |-> key, status |-> "draft", variations |-> variations,
     weights |-> [i \in DOMAIN variations |-> WeightOf(variations[i])],
     traffic_percent |-> traffic_percent,
     started_at |-> Nothing, ended_at |-> Nothing]

\* GrowthBookClient._experiment_to_dict
_experiment_to_dict(exp) ==
    [key |-> exp.key, status |-> exp.status, variations |-> exp.variations,
     weights |-> exp.weights, trafficPercent |-> exp.traffic_percent,
     startedAt |-> exp.started_at, endedAt |-> exp.ended_at]

\* GrowthBookClient.get_experiment
get_experiment(self, key) ==
    LET exp == Get(self._experiments, key)
    IN  Returns(self, IF exp # Nothing THEN _experiment_to_dict(exp) ELSE Nothing)

\* GrowthBookClient.create_experiment; variations is Nothing or ListVal(the variations)
create_experiment(self, key, variations, traffic_percent) ==
    LET given == IF variations = Nothing \/ variations.list = <<>>
                 THEN DefaultVariations ELSE variations.list
        experiment == Experiment(key, given, traffic_percent)
    IN  Returns([self EXCEPT !._experiments = Assign(@, key, experiment)],
                _experiment_to_dict(experiment))

\* start_experiment that makes the entry when the key is unknown
start_experiment_creates_missing(self, now, key) ==
    LET exp == IF Has(self._experiments, key) THEN Get(self._experiments, key)
               ELSE Experiment(key, DefaultVariations, DefaultTrafficPercent)
        started == [exp EXCEPT !.status = "running", !.started_at = At(now)]
    IN  Returns([self EXCEPT !._experiments = Assign(@, key, started)],
                _experiment_to_dict(started))

\* GrowthBookClient.start_experiment
start_experiment(self, now, key) ==
    IF ~Has(self._experiments, key) THEN Raises(self, "ValueError")
    ELSE LET exp == Get(self._experiments, key)
             started == [exp EXCEPT !.status = "running", !.started_at = At(now)]
         IN  Returns([self EXCEPT !._experiments = Assign(@, key, started)],
                     _experiment_to_dict(started))

\* mutant of stop_experiment: a stopped experiment gets a new split of the traffic
stop_experiment_reshuffles(self, now, key) ==
    IF ~Has(self._experiments, key) THEN Raises(self, "ValueError")
    ELSE LET exp == Get(self._experiments, key)
             n == Len(exp.variations)
             stopped == [exp EXCEPT !.status = "stopped", !.ended_at = At(now),
                                    !.variations = [i \in 1..n |-> exp.variations[n + 1 - i]]]
         IN  Returns([self EXCEPT !._experiments = Assign(@, key, stopped)],
                     _experiment_to_dict(stopped))

\* GrowthBookClient.stop_experiment
stop_experiment(self, now, key) ==
    IF ~Has(self._experiments, key) THEN Raises(self, "ValueError")
    ELSE LET exp == Get(self._experiments, key)
             stopped == [exp EXCEPT !.status = "stopped", !.ended_at = At(now)]
         IN  Returns([self EXCEPT !._experiments = Assign(@, key, stopped)],
                     _experiment_to_dict(stopped))

\* int(hashlib.md5(f"{key}:{user_id}".encode()).hexdigest(), 16) % 100, for
\* the keys and users of the model
Md5Bucket(key, user_id) ==
    CASE key = "exp1" /\ user_id = "user-42" -> 71
      [] key = "exp1" /\ user_id = "user-123" -> 42
      [] key = "exp1" /\ user_id = "user-75" -> 29
      [] key = "exp_missing" /\ user_id = "user-42" -> 54
      [] key = "exp_missing" /\ user_id = "user-123" -> 64
      [] key = "exp_missing" /\ user_id = "user-75" -> 13

\* the bucket taken from the built-in hash() of the string, which the
\* interpreter salts with a seed drawn at process start
Bucket_salted_hash(key, user_id) ==
    (Md5Bucket(key, user_id) + 37 * gb.hash_seed) % BucketCount

Bucket(key, user_id) == Md5Bucket(key, user_id)

\* the pairs <<bucket, traffic_percent>> with bucket < traffic_percent <= 100
\* whose float (bucket / traffic_percent) * 100 is a whole number's float
\* neighbour below it: 29/100*100 is 28.999999999999996
RoundsBelow == {<<29, 50>>, <<29, 100>>, <<57, 100>>, <<58, 100>>}

\* normalized_bucket < cumulative, for normalized_bucket =
\* (bucket / traffic_percent) * 100 in floats and whole weights
NormalizedLess(bucket, traffic_percent, cumulative) ==
    \/ bucket * 100 < cumulative * traffic_percent
    \/ /\ bucket * 100 = cumulative * traffic_percent
       /\ <<bucket, traffic_percent>> \in RoundsBelow

\* variation.get("key")
KeyOf(variation) == IF "key" \in DOMAIN variation THEN variation.key ELSE NoneVal

\* the walk that falls back to the first variation
RECURSIVE Walk_falls_back_to_first(_, _, _, _)
Walk_falls_back_to_first(exp, bucket, i, cumulative) ==
    IF i > Len(exp.variations)
    THEN IF exp.variations # <<>> THEN KeyOf(exp.variations[1]) ELSE NoneVal
    ELSE LET sum == cumulative + WeightOf(exp.variations[i])
         IN  IF NormalizedLess(bucket, exp.traffic_percent, sum)
             THEN KeyOf(exp.variations[i])
             ELSE Walk_falls_back_to_first(exp, bucket, i + 1, sum)

\* lines 510 to 515: the loop from variation i on, then the fallback
RECURSIVE Walk(_, _, _, _)
Walk(exp, bucket, i, cumulative) ==
    IF i > Len(exp.variations)
    THEN IF exp.variations # <<>> THEN KeyOf(exp.variations[Len(exp.variations)])
         ELSE NoneVal
    ELSE LET sum == cumulative + WeightOf(exp.variations[i])
         IN  IF NormalizedLess(bucket, exp.traffic_percent, sum)
             THEN KeyOf(exp.variations[i])
             ELSE Walk(exp, bucket, i + 1, sum)

\* get_experiment_variant that only tests that the experiment exists
get_experiment_variant_ignores_status(self, key, user_id) ==
    LET exp == Get(self._experiments, key)
    IN  IF exp = Nothing THEN Returns(self, NoneVal)
        ELSE LET bucket == Bucket(key, user_id)
             IN  IF bucket >= exp.traffic_percent THEN Returns(self, NoneVal)
                 ELSE Returns(self, Walk(exp, bucket, 1, 0))

\* GrowthBookClient.get_experiment_variant
get_experiment_variant(self, key, user_id) ==
    LET exp == Get(self._experiments, key)
    IN  IF exp = Nothing \/ exp.status # "running" THEN Returns(self, NoneVal)
        ELSE LET bucket == Bucket(key, user_id)
             IN  IF bucket >= exp.traffic_percent THEN Returns(self, NoneVal)
                 ELSE Returns(self, Walk(exp, bucket, 1, 0))

(***************************************************************************)
(* Dynamic configs                                                         *)
(***************************************************************************)
\* GrowthBookClient.update_dynamic_config
update_dynamic_config(self, key, value) ==
    IF ~Has(self._configs, key) THEN Raises(self, "ValueError")
    ELSE LET config == Get(self._configs, key)
             updated == [config EXCEPT !.value = value]
         IN  Returns([self EXCEPT !._configs = Assign(@, key, updated)], updated)

(***************************************************************************)
(* One process using the GrowthBookClient singleton of                     *)
(* get_growthbook_client.  No call suspends in local mode, so a call is    *)
(* one step.  gb.ret is the last call and what it gave; gb.seen remembers  *)
(* one earlier get_experiment_variant call, to compare later calls with.   *)
(***************************************************************************)
MaxNow == 3

MaxEvaluations == 2

HashSeeds == {0, 1}

NoCall == [op |-> "none"]

\* the pipeline and the auction are not running
Elsewhere ==
    /\ state = [s \in Strategies |-> InitialState("ws_full", "ping", EmptyMap, <<>>)]
    /\ pc = [s \in Strategies |-> "idle"]
    /\ visited = [s \in Strategies |-> <<>>]
    /\ failure = [s \in Strategies |-> NoneVal]
    /\ auction = AuctionIdle
    /\ runs = RunsIdle

\* get_growthbook_client() in a fresh process
InitGrowthBook ==
    /\ Elsewhere
    /\ \E seed \in HashSeeds :
           gb = [pc |-> "up", client |-> GrowthBookClient, now |-> 0,
                 hash_seed |-> seed, ret |-> NoCall, seen |-> Nothing,
                 assigned |-> Nothing]

\* the last call: its name, its arguments and what it returned, filed under
\* the call's name, or the exception it raised
Ret(op, args, out) ==
    [op |-> op, args |-> args, raised |-> out.raised,
     result |-> IF out.raised THEN [exc |-> out.exc] ELSE [x \in {op} |-> out.result]]

\* what the call in r returned
Result(r) == r.result[r.op]

\* the call `op` with arguments `args` gave `out`
Called(op, args, out) ==
    /\ gb' = [gb EXCEPT !.client = out.self, !.ret = Ret(op, args, out)]
    /\ UNCHANGED <<state, pc, visited, failure, auction, runs>>

\* datetime.utcnow() moves on
Tick ==
    /\ gb.pc = "up"
    /\ gb.now < MaxNow
    /\ gb' = [gb EXCEPT !.now = @ + 1]
    /\ UNCHANGED <<state, pc, visited, failure, auction, runs>>

\* the process ends and a new one builds the singleton again
Restart ==
    /\ gb.pc = "up"
    /\ \E seed \in HashSeeds :
           gb' = [gb EXCEPT !.client = GrowthBookClient, !.hash_seed = seed,
                            !.ret = NoCall, !.assigned = Nothing]
    /\ UNCHANGED <<state, pc, visited, failure, auction, runs>>

\* the targeting rules and the attributes of the model
Rule(attribute, operator, value, override) ==
    [condition |-> [attribute |-> attribute, operator |-> operator, value |-> value],
     value |-> override]

ProPlan == Chars(<<"p", "r", "o">>)

FreePlan == Chars(<<"f", "r", "e", "e">>)

PlanThenScore ==
    << Rule("plan", "equals", ProPlan, TRUE),
       Rule("score", "greater_than", IntVal(50), FALSE) >>

MixedRules ==
    << Rule("score", "less_than", IntVal(10), TRUE),
       Rule("plan", "in", ListVal(<<ProPlan, Chars(<<"t", "e", "a", "m">>)>>), FALSE),
       Rule("score", "contains", Chars(<<"8">>), TRUE),
       Rule("plan", "not_equals", ProPlan, FALSE),
       Rule("region", "matches", Chars(<<"e", "u">>), TRUE) >>

AttributeSets ==
    { Nothing,
      [plan |-> ProPlan, score |-> IntVal(80)],
      [score |-> IntVal(5), plan |-> FreePlan],
      [plan |-> FreePlan, region |-> Chars(<<"e", "u">>)],
      [score |-> IntVal(18)] }

FlagKeys == {"beta", "enable_x402_payments", "no_such_flag"}

CreateFeatureFlag(RuleArgs) ==
    /\ gb.pc = "up"
    /\ \E enabled \in BOOLEAN, rules \in RuleArgs :
           Called("create_feature_flag",
                  [key |-> "beta", enabled |-> enabled, rules |-> rules],
                  create_feature_flag(gb.client, gb.now, "beta", enabled, Nothing, rules))

UpdateFeatureFlag(RuleArgs) ==
    /\ gb.pc = "up"
    /\ \E key \in {"beta", "no_such_flag"}, rules \in RuleArgs,
          enabled \in {Nothing, [bool |-> TRUE], [bool |-> FALSE]} :
           Called("update_feature_flag", [key |-> key],
                  update_feature_flag(gb.client, gb.now, key, enabled, Nothing, rules))

IsOn(Keys, Attributes) ==
    /\ gb.pc = "up"
    /\ Len(gb.client._evaluation_log) < MaxEvaluations
    /\ \E key \in Keys, attributes \in Attributes :
           Called("is_on", [key |-> key, attributes |-> attributes],
                  is_on(gb.client, gb.now, key, attributes))

GetFeatureValue ==
    /\ gb.pc = "up"
    /\ Len(gb.client._evaluation_log) < MaxEvaluations
    /\ \E key \in FlagKeys :
           Called("get_feature_value", [key |-> key],
                  get_feature_value(gb.client, gb.now, key, Nothing, Nothing))

GetStaleFlags ==
    /\ gb.pc = "up"
    /\ \E days \in {0, 1, DefaultStaleDays} :
           Called("get_stale_flags", [days |-> days],
                  get_stale_flags(gb.client, gb.now, days))

GetFeatureFlags ==
    /\ gb.pc = "up"
    /\ Called("get_feature_flags", Nothing, get_feature_flags(gb.client, gb.now))

GetFeatureFlag ==
    /\ gb.pc = "up"
    /\ \E key \in FlagKeys :
           Called("get_feature_flag", [key |-> key],
                  get_feature_flag(gb.client, gb.now, key))

\* the experiments of the model
ExperimentKeys == {"exp1", "exp_missing"}

UserIds == {"user-42", "user-123", "user-75"}

Designs ==
    { [variations |-> Nothing, traffic_percent |-> 50],
      [variations |-> ListVal(<<[key |-> "a", weight |-> 29], [key |-> "b"]>>),
       traffic_percent |-> 100],
      [variations |-> ListVal(<<[key |-> "x", weight |-> 30], [key |-> "y", weight |-> 30]>>),
       traffic_percent |-> 100],
      [variations |-> ListVal(<<>>), traffic_percent |-> 0] }

CreateExperiment ==
    /\ gb.pc = "up"
    /\ \E design \in Designs :
         LET out == create_experiment(gb.client, "exp1", design.variations,
                                      design.traffic_percent)
         IN  /\ gb' = [gb EXCEPT
                          !.client = out.self,
                          !.ret = Ret("create_experiment", [key |-> "exp1"], out),
                          !.assigned = Nothing]
             /\ UNCHANGED <<state, pc, visited, failure, auction, runs>>

StartExperiment ==
    /\ gb.pc = "up"
    /\ \E key \in ExperimentKeys :
           Called("start_experiment", [key |-> key],
                  start_experiment(gb.client, gb.now, key))

\* gb.assigned remembers, for an experiment stopped while running, the
\* variant every user had when it was stopped
StopExperiment ==
    /\ gb.pc = "up"
    /\ \E key \in ExperimentKeys :
         LET out == stop_experiment(gb.client, gb.now, key)
             exp == Get(gb.client._experiments, key)
         IN  /\ gb' = [gb EXCEPT
                          !.client = out.self,
                          !.ret = Ret("stop_experiment", [key |-> key], out),
                          !.assigned =
                              IF exp = Nothing \/ exp.status = "stopped" THEN @
                              ELSE IF exp.status = "running"
                              THEN [u \in UserIds |->
                                      get_experiment_variant(gb.client, key, u).result]
                              ELSE Nothing]
             /\ UNCHANGED <<state, pc, visited, failure, auction, runs>>

GetExperiment ==
    /\ gb.pc = "up"
    /\ \E key \in ExperimentKeys :
           Called("get_experiment", [key |-> key], get_experiment(gb.client, key))

\* what identifies an experiment for an assignment
Definition(exp) ==
    [key |-> exp.key, traffic_percent |-> exp.traffic_percent,
     variations |-> exp.variations, status |-> exp.status]

GetExperimentVariant ==
    /\ gb.pc = "up"
    /\ \E key \in ExperimentKeys, user_id \in UserIds :
         LET out == get_experiment_variant(gb.client, key, user_id)
             exp == Get(gb.client._experiments, key)
             call == [key |-> key, user_id |-> user_id, hash_seed |-> gb.hash_seed,
                      experiment |-> Definition(exp), result |-> out.result]
         IN  /\ \E remember \in BOOLEAN :
                   gb' = [gb EXCEPT
                            !.client = out.self,
                            !.ret = Ret("get_experiment_variant",
                                        [key |-> key, user_id |-> user_id], out),
                            !.seen = IF remember /\ gb.seen = Nothing /\ exp # Nothing
                                     THEN call ELSE @]
             /\ UNCHANGED <<state, pc, visited, failure, auction, runs>>

\* flag evaluation by rules: no clock
NextRules ==
    \/ CreateFeatureFlag({Nothing, ListVal(PlanThenScore), ListVal(MixedRules)})
    \/ UpdateFeatureFlag({Nothing, ListVal(MixedRules)})
    \/ IsOn(FlagKeys, AttributeSets)
    \/ GetFeatureValue

SpecRules == InitGrowthBook /\ [][NextRules]_vars

\* flag evaluation and staleness over time
NextFlags ==
    \/ Tick
    \/ CreateFeatureFlag({Nothing, ListVal(PlanThenScore)})
    \/ IsOn(FlagKeys, {Nothing, [plan |-> ProPlan, score |-> IntVal(80)],
                       [plan |-> FreePlan, score |-> IntVal(5)]})
    \/ GetStaleFlags
    \/ GetFeatureFlags
    \/ GetFeatureFlag

SpecFlags == InitGrowthBook /\ [][NextFlags]_vars

\* experiments, with a flag evaluated in between and process restarts
NextExperiments ==
    \/ CreateExperiment
    \/ StartExperiment
    \/ StopExperiment
    \/ GetExperiment
    \/ GetExperimentVariant
    \/ IsOn({"enable_x402_payments"}, {Nothing})
    \/ Restart

SpecExperiments == InitGrowthBook /\ [][NextExperiments]_vars

(***************************************************************************)
(* Properties of experiment assignment                                     *)
(***************************************************************************)
\* this step is a call of `op`: every step but Tick and Restart is a call
\* and leaves it in gb.ret
IsCall(op) == gb'.ret.op = op /\ gb'.now = gb.now

\* C12: get_experiment_variant is deterministic and stores nothing: a call
\* leaves the client as it was, and for an experiment with the same key,
\* traffic_percent, variations and status and the same user_id it returns
\* what an earlier call returned, whatever was called in between and also
\* after the registry was rebuilt in a new process.
C12_VariantDeterministic ==
    [][IsCall("get_experiment_variant") =>
         LET key == gb'.ret.args.key
             exp == Get(gb.client._experiments, key)
         IN  /\ gb'.client = gb.client
             /\ (/\ gb.seen # Nothing
                 /\ exp # Nothing
                 /\ gb.seen.key = key
                 /\ gb.seen.user_id = gb'.ret.args.user_id
                 /\ gb.seen.experiment = Definition(exp))
                => Result(gb'.ret) = gb.seen.result]_vars

\* a call repeats a remembered one in another process, a flag evaluated since
C12_Witness ==
    /\ gb.pc = "up"
    /\ gb.ret.op = "get_experiment_variant"
    /\ gb.seen # Nothing
    /\ gb.seen.key = gb.ret.args.key
    /\ gb.seen.user_id = gb.ret.args.user_id
    /\ gb.seen.hash_seed # gb.hash_seed
    /\ Has(gb.client._experiments, gb.ret.args.key)
    /\ gb.seen.experiment = Definition(Get(gb.client._experiments, gb.ret.args.key))
    /\ gb.client._evaluation_log # <<>>
    /\ Result(gb.ret) = gb.seen.result
    /\ Result(gb.ret) # NoneVal

\* the cumulative weight of the first i variations
RECURSIVE Cumulative(_, _)
Cumulative(variations, i) ==
    IF i = 0 THEN 0 ELSE Cumulative(variations, i - 1) + WeightOf(variations[i])

\* C13: for a running experiment and a user with bucket b,
\* get_experiment_variant returns null when b >= traffic_percent (always,
\* when traffic_percent is 0); otherwise the first variation in list order
\* whose cumulative weight exceeds b / traffic_percent * 100, and the last
\* variation when no cumulative weight exceeds it.
C13_VariantByCumulativeWeight ==
    (/\ gb.pc = "up"
     /\ gb.ret.op = "get_experiment_variant"
     /\ Has(gb.client._experiments, gb.ret.args.key)
     /\ Get(gb.client._experiments, gb.ret.args.key).status = "running")
    => LET exp == Get(gb.client._experiments, gb.ret.args.key)
           b == Md5Bucket(gb.ret.args.key, gb.ret.args.user_id)
           exceeding == {i \in DOMAIN exp.variations :
                           NormalizedLess(b, exp.traffic_percent,
                                          Cumulative(exp.variations, i))}
       IN  /\ ~gb.ret.raised
           /\ IF b >= exp.traffic_percent THEN Result(gb.ret) = NoneVal
              ELSE IF exceeding = {}
                   THEN Result(gb.ret) = exp.variations[Len(exp.variations)].key
                   ELSE Result(gb.ret) =
                          exp.variations[CHOOSE i \in exceeding :
                                            \A j \in exceeding : i <= j].key

\* a user inside the traffic whom no cumulative weight covers got the last variation
C13_Witness ==
    /\ gb.pc = "up"
    /\ gb.ret.op = "get_experiment_variant"
    /\ Has(gb.client._experiments, gb.ret.args.key)
    /\ LET exp == Get(gb.client._experiments, gb.ret.args.key)
           b == Md5Bucket(gb.ret.args.key, gb.ret.args.user_id)
       IN  /\ exp.status = "running"
           /\ b < exp.traffic_percent
           /\ \A i \in DOMAIN exp.variations :
                  ~NormalizedLess(b, exp.traffic_percent, Cumulative(exp.variations, i))
           /\ Len(exp.variations) = 2
           /\ Result(gb.ret) = exp.variations[2].key

\* C14: get_experiment_variant returns a variant only while the experiment's
\* status is running: after any sequence of create_experiment,
\* start_experiment and stop_experiment it returns null for every user when
\* the status is draft, stopped or archived.
C14_VariantOnlyWhileRunning ==
    (/\ gb.pc = "up"
     /\ gb.ret.op = "get_experiment_variant"
     /\ Has(gb.client._experiments, gb.ret.args.key)
     /\ Get(gb.client._experiments, gb.ret.args.key).status
            \in {"draft", "stopped", "archived"})
    => Result(gb.ret) = NoneVal

\* a user inside the traffic of an experiment that ran and was stopped gets null
C14_Witness ==
    /\ gb.pc = "up"
    /\ gb.ret.op = "get_experiment_variant"
    /\ Has(gb.client._experiments, gb.ret.args.key)
    /\ LET exp == Get(gb.client._experiments, gb.ret.args.key)
       IN  /\ exp.status = "stopped"
           /\ exp.started_at # Nothing
           /\ Md5Bucket(gb.ret.args.key, gb.ret.args.user_id) < exp.traffic_percent
    /\ Result(gb.ret) = NoneVal

\* C18: for an experiment key that is not in the registry, get_experiment and
\* get_experiment_variant return null, and start_experiment and
\* stop_experiment fail with an error and leave the registry as it was.
C18_UnknownExperiment ==
    [][\A op \in {"get_experiment", "get_experiment_variant",
                  "start_experiment", "stop_experiment"} :
         (IsCall(op) /\ ~Has(gb.client._experiments, gb'.ret.args.key))
         => /\ gb'.client._experiments = gb.client._experiments
            /\ op = "get_experiment" => (~gb'.ret.raised /\ Result(gb'.ret) = Nothing)
            /\ op = "get_experiment_variant"
                  => (~gb'.ret.raised /\ Result(gb'.ret) = NoneVal)
            /\ op \in {"start_experiment", "stop_experiment"}
                  => (gb'.ret.raised /\ gb'.ret.result.exc = "ValueError")]_vars

\* start_experiment on an unknown key raised, beside a registered experiment
C18_Witness ==
    /\ gb.pc = "up"
    /\ gb.ret.op = "start_experiment"
    /\ ~Has(gb.client._experiments, gb.ret.args.key)
    /\ gb.ret.raised
    /\ gb.client._experiments # <<>>

(***************************************************************************)
(* Properties of flag evaluation                                           *)
(***************************************************************************)
\* the rule's condition holds of the attributes, by the rule's operator
RuleHolds(rule, attributes) ==
    /\ rule.condition.attribute \in DOMAIN attributes
    /\ LET actual == attributes[rule.condition.attribute]
           wanted == rule.condition.value
           op == rule.condition.operator
       IN  \/ op = "equals" /\ actual = wanted
           \/ op = "not_equals" /\ actual # wanted
           \/ op = "contains" /\ Contains(wanted.chars, Str(actual))
           \/ op = "greater_than" /\ actual.int > wanted.int
           \/ op = "less_than" /\ actual.int < wanted.int
           \/ op = "in" /\ \E i \in DOMAIN wanted.list : wanted.list[i] = actual

\* the rules of the flag that hold of the attributes of the call
RulesHolding(feature, attributes) ==
    IF attributes = Nothing THEN {}
    ELSE {i \in DOMAIN feature.rules : RuleHolds(feature.rules[i], attributes)}

C16_EvaluationStampsFlag ==
    [][(IsCall("is_on") /\ Has(gb.client._features, gb'.ret.args.key))
       => Get(gb'.client._features, gb'.ret.args.key).last_evaluated = At(gb.now)]_vars

\* a flag with rules was evaluated with attributes that no rule matches,
\* later than its creation
C16_Witness ==
    /\ gb.pc = "up"
    /\ gb.ret.op = "is_on"
    /\ Has(gb.client._features, gb.ret.args.key)
    /\ gb.now > 0
    /\ LET feature == Get(gb.client._features, gb.ret.args.key)
       IN  /\ feature.rules # <<>>
           /\ gb.ret.args.attributes # Nothing
           /\ RulesHolding(feature, gb.ret.args.attributes) = {}
           /\ feature.last_evaluated = At(gb.now)

\* C17: for every N, get_stale_flags(N) returns exactly the flags whose
\* last_evaluated is null or older than N days, by any amount: a flag last
\* evaluated more than N days ago is in it, one evaluated within the last N
\* days is not.
C17_StaleFlagsExact ==
    [][IsCall("get_stale_flags") =>
         LET days == gb'.ret.args.days
             returned == {Result(gb'.ret)[i].key : i \in DOMAIN Result(gb'.ret)}
             stale == {i \in DOMAIN gb.client._features :
                         \/ gb.client._features[i].last_evaluated = Nothing
                         \/ gb.now - gb.client._features[i].last_evaluated.at
                               > days * TicksPerDay}
         IN  returned = {gb.client._features[i].key : i \in stale}]_vars

(***************************************************************************)
(* Concurrent runs.  The endpoint (gtm.py) builds a GTMOrchestrator for    *)
(* each request and awaits its handle_event, so two requests of one        *)
(* process are two coroutines on one event loop: control passes from one   *)
(* to the other only where a coroutine awaits.  A stage method reads the   *)
(* state, awaits its agent, and after the await writes the decision into   *)
(* the state object it was given.  Python objects are cells of a heap; a   *)
(* run holds the address of its state, not a copy.                         *)
(***************************************************************************)
Runs == {1, 2}

\* the events two concurrent requests carry
RunEvents ==
    << [workspace_id |-> "ws_full", event_type |-> "deal_stage_changed", payload |-> Payloads[3]],
       [workspace_id |-> "ws_new", event_type |-> "lead_created", payload |-> Payloads[5]],
       [workspace_id |-> "ws_full", event_type |-> "qa_updated", payload |-> Payloads[6]],
       [workspace_id |-> "ws_missing", event_type |-> "go_live", payload |-> Payloads[6]],
       [workspace_id |-> "ws_full", event_type |-> "lead_created", payload |-> Payloads[9]],
       [workspace_id |-> "ws_new", event_type |-> "ping", payload |-> EmptyMap] >>

\* mutant of Cell: `initial` is one dict of the module, filled in by each call
Cell_shared(r) == 1

\* the address of the `initial` dict of run r: the dict display of lines 152
\* to 161 builds a new dict, with a new {} and a new [] in it, in each call
Cell(r) == r

\* nothing awaited yet
NoPending == [none |-> TRUE]

InitRuns ==
    /\ state = [s \in Strategies |-> InitialState("ws_full", "ping", EmptyMap, <<>>)]
    /\ pc = [s \in Strategies |-> "idle"]
    /\ visited = [s \in Strategies |-> <<>>]
    /\ failure = [s \in Strategies |-> NoneVal]
    /\ auction = AuctionIdle
    /\ gb = GrowthBookIdle
    /\ \E i, j \in DOMAIN RunEvents :
           /\ i # j
           /\ runs = [pc |-> "up",
                      heap |-> [c \in Runs |-> Nothing],
                      touched |-> [c \in Runs |-> {}],
                      frame |-> [r \in Runs |->
                                   [event |-> RunEvents[IF r = 1 THEN i ELSE j],
                                    at |-> "l152", pending |-> NoPending,
                                    failure |-> NoneVal, result |-> Nothing,
                                    cancelled |-> FALSE]]]

\* run r reads or writes the object at Cell(r)
Touch(r) == [runs.touched EXCEPT ![Cell(r)] = @ \cup {r}]

\* lines 152 to 161: the call builds `initial`
RunStart(r) ==
    /\ runs.pc = "up"
    /\ runs.frame[r].at = "l152"
    /\ LET e == runs.frame[r].event
       IN  runs' = [runs EXCEPT
                      !.heap[Cell(r)] = InitialState(e.workspace_id, e.event_type,
                                                     e.payload, <<>>),
                      !.touched = Touch(r),
                      !.frame[r].at = EntryPoint]
    /\ UNCHANGED <<state, pc, visited, failure, auction, gb>>

\* a stage method up to its await: the agent is called with what the state
\* holds now; the run is suspended until the agent is done
RunCall(r) ==
    /\ runs.pc = "up"
    /\ runs.frame[r].at \in Nodes
    /\ runs.frame[r].pending = NoPending
    /\ LET st == runs.heap[Cell(r)]
           out == NodeFn(runs.frame[r].at, st)
       IN  runs' = [runs EXCEPT
                      !.touched = Touch(r),
                      !.frame[r].pending =
                          IF out.raised
                          THEN [raised |-> TRUE, exc |-> out.exc]
                          ELSE [raised |-> FALSE,
                                decision |-> out.state.decisions[DecisionKey(runs.frame[r].at)],
                                actions |-> SubSeq(out.state.actions, Len(st.actions) + 1,
                                                   Len(out.state.actions))]]
    /\ UNCHANGED <<state, pc, visited, failure, auction, gb>>

\* the stage method after its await: state["decisions"][key] = decision and
\* state["actions"].extend(...) on the state object, then the next stage; an
\* exception of the agent leaves handle_event
RunResume(r) ==
    /\ runs.pc = "up"
    /\ runs.frame[r].at \in Nodes
    /\ runs.frame[r].pending # NoPending
    /\ LET n == runs.frame[r].at
           p == runs.frame[r].pending
           st == runs.heap[Cell(r)]
           written == [st EXCEPT !.decisions = Put(@, DecisionKey(n), p.decision),
                                 !.actions = @ \o p.actions]
       IN  IF p.raised
           THEN runs' = [runs EXCEPT !.frame[r].at = "raised",
                                     !.frame[r].failure = p.exc,
                                     !.frame[r].pending = NoPending]
           ELSE runs' = [runs EXCEPT !.heap[Cell(r)] = written,
                                     !.touched = Touch(r),
                                     !.frame[r].at = GraphNext(n, written),
                                     !.frame[r].pending = NoPending]
    /\ UNCHANGED <<state, pc, visited, failure, auction, gb>>

\* line 173 / line 175: handle_event returns the state object
RunReturn(r) ==
    /\ runs.pc = "up"
    /\ runs.frame[r].at = END
    /\ runs' = [runs EXCEPT !.frame[r].at = "returned",
                            !.frame[r].result = runs.heap[Cell(r)],
                            !.touched = Touch(r)]
    /\ UNCHANGED <<state, pc, visited, failure, auction, gb>>

NextRuns ==
    \/ \E r \in Runs : RunStart(r)
    \/ \E r \in Runs : RunCall(r)
    \/ \E r \in Runs : RunResume(r)
    \/ \E r \in Runs : RunReturn(r)

SpecRuns == InitRuns /\ [][NextRuns]_vars

(***************************************************************************)
(* Properties of concurrent runs                                           *)
(***************************************************************************)
RECURSIVE Drive(_, _)
\* handle_event with nothing else running: stage after stage from n on st
Drive(n, st) ==
    IF n = END THEN [failure |-> NoneVal, result |-> st]
    ELSE LET out == NodeFn(n, st)
         IN  IF out.raised THEN [failure |-> out.exc, result |-> Nothing]
             ELSE Drive(GraphNext(n, out.state), out.state)

RunAlone(e) ==
    Drive(EntryPoint, InitialState(e.workspace_id, e.event_type, e.payload, <<>>))

\* C19: two handle_event runs for different events, interleaved at their
\* stage awaits, share no mutable run state (no state object is read or
\* written by both runs), and each run ends as it does alone: with the same
\* decisions, actions and errors, or with the same exception.
C19_RunsIndependent ==
    runs.pc = "up" =>
        /\ \A c \in Runs : Cardinality(runs.touched[c]) <= 1
        /\ \A r \in Runs :
              LET f == runs.frame[r]
                  alone == RunAlone(f.event)
              IN  /\ f.at = "raised" => f.failure = alone.failure
                  /\ f.at = "returned" =>
                        /\ alone.failure = NoneVal
                        /\ f.result.decisions = alone.result.decisions
                        /\ f.result.actions = alone.result.actions
                        /\ f.result.errors = alone.result.errors

\* run 1 has returned its actions while run 2, which has written decisions
\* already, is suspended in a stage: the two runs overlapped
C19_Witness ==
    /\ runs.pc = "up"
    /\ runs.frame[1].at = "returned"
    /\ runs.frame[1].result.actions # <<>>
    /\ runs.frame[2].at \in Nodes
    /\ runs.frame[2].pending # NoPending
    /\ runs.heap[Cell(2)].decisions # EmptyMap

(***************************************************************************)
(* Concurrent tasks on the singleton.  The registry operations are         *)
(* coroutines of one event loop: a task runs until it awaits or its call   *)
(* ends, and only then may another task run.  gb.current is the task the   *)
(* loop is running (0: none).  A mutating call is two pieces of code, the  *)
(* existence check and the writes that follow it; a task between the two   *)
(* remembers the registry its check saw.                                   *)
(***************************************************************************)
Tasks == {1, 2}

MaxCalls == 2

NoTask == 0

\* the mutating calls the tasks make
MutationCalls ==
    {[op |-> "update_feature_flag", key |-> k, enabled |-> [bool |-> b]] :
        k \in {"enable_x402_payments", "no_such_flag"}, b \in BOOLEAN}
    \cup {[op |-> "create_feature_flag", key |-> k, enabled |-> [bool |-> TRUE]] :
             k \in {"enable_x402_payments", "beta"}}
    \cup {[op |-> o, key |-> k, enabled |-> Nothing] :
             o \in {"start_experiment", "stop_experiment"}, k \in ExperimentKeys}
    \cup {[op |-> "update_dynamic_config", key |-> k, enabled |-> Nothing] :
             k \in {"negotiation_parameters", "no_such_config"}}

\* the value update_dynamic_config is called with
NewConfigValue == [max_discount_percent |-> 20, min_agents_for_consensus |-> 3]

\* mutant of Suspends: the local branch awaits between its check and its writes
Suspends_after_check(op) == TRUE

\* whether the local-mode branch of op awaits anything between its existence
\* check and its writes: none of the five branches contains an await
Suspends(op) == FALSE

\* the existence check that opens the local branch; create_feature_flag has none
Exists(self, call) ==
    CASE call.op = "update_feature_flag"   -> Has(self._features, call.key)
      [] call.op = "create_feature_flag"   -> TRUE
      [] call.op = "start_experiment"      -> Has(self._experiments, call.key)
      [] call.op = "stop_experiment"       -> Has(self._experiments, call.key)
      [] call.op = "update_dynamic_config" -> Has(self._configs, call.key)

\* the local branch from the check on
Perform(self, now, call) ==
    CASE call.op = "update_feature_flag" ->
             update_feature_flag(self, now, call.key, call.enabled, Nothing, Nothing)
      [] call.op = "create_feature_flag" ->
             create_feature_flag(self, now, call.key, call.enabled.bool, Nothing, Nothing)
      [] call.op = "start_experiment" -> start_experiment(self, now, call.key)
      [] call.op = "stop_experiment" -> stop_experiment(self, now, call.key)
      [] call.op = "update_dynamic_config" ->
             update_dynamic_config(self, call.key, NewConfigValue)

IdleTask == [at |-> "idle", calls |-> 0, raised |-> 0]

\* a process whose client holds the experiment exp1, and two tasks about to
\* call the client
InitTasks ==
    /\ Elsewhere
    /\ gb = [pc |-> "loop",
             client |-> create_experiment(GrowthBookClient, "exp1", Nothing,
                                          DefaultTrafficPercent).self,
             now |-> 0, current |-> NoTask,
             task |-> [t \in Tasks |-> IdleTask]]

\* task t calls a mutation, which runs up to the end of its existence check:
\* an unknown key raises ValueError and the call is over
TaskCheck(t) ==
    /\ gb.pc = "loop"
    /\ gb.current = NoTask
    /\ gb.task[t].at = "idle"
    /\ gb.task[t].calls < MaxCalls
    /\ \E call \in MutationCalls :
           IF Exists(gb.client, call)
           THEN gb' = [gb EXCEPT
                         !.current = IF Suspends(call.op) THEN NoTask ELSE t,
                         !.task[t] = [at |-> "write", calls |-> gb.task[t].calls + 1,
                                      raised |-> gb.task[t].raised,
                                      call |-> call, checked |-> gb.client]]
           ELSE gb' = [gb EXCEPT !.task[t].calls = @ + 1, !.task[t].raised = @ + 1]
    /\ UNCHANGED <<state, pc, visited, failure, auction, runs>>

\* task t goes on after the check: the writes, and the call returns
TaskWrite(t) ==
    /\ gb.pc = "loop"
    /\ gb.current \in {NoTask, t}
    /\ gb.task[t].at = "write"
    /\ LET out == Perform(gb.client, gb.now, gb.task[t].call)
       IN  gb' = [gb EXCEPT
                     !.client = out.self,
                     !.current = NoTask,
                     !.task[t] = [at |-> "idle", calls |-> gb.task[t].calls,
                                  raised |-> gb.task[t].raised
                                             + (IF out.raised THEN 1 ELSE 0)]]
    /\ UNCHANGED <<state, pc, visited, failure, auction, runs>>

\* datetime.utcnow() moves on, whatever the loop is doing
TaskTick ==
    /\ gb.pc = "loop"
    /\ gb.now < MaxNow
    /\ gb' = [gb EXCEPT !.now = @ + 1]
    /\ UNCHANGED <<state, pc, visited, failure, auction, runs>>

NextTasks ==
    \/ \E t \in Tasks : TaskCheck(t)
    \/ \E t \in Tasks : TaskWrite(t)
    \/ TaskTick

SpecTasks == InitTasks /\ [][NextTasks]_vars

(***************************************************************************)
(* Properties of concurrent registry mutations                             *)
(***************************************************************************)
\* C20: in local mode update_feature_flag, create_feature_flag,
\* start_experiment, stop_experiment and update_dynamic_config do not
\* suspend between their existence check and their write: a task that has
\* checked still holds the event loop, no other task is between its own check
\* and write, and the registry is the one the check saw when the write
\* happens.
C20_MutationsAtomic ==
    gb.pc = "loop" =>
        \A t \in Tasks :
            gb.task[t].at = "write" =>
                /\ gb.current = t
                /\ gb.client = gb.task[t].checked
                /\ \A u \in Tasks \ {t} : gb.task[u].at = "idle"

\* task 1 is between the check and the write of a call whose key exists,
\* after task 2 has changed the registry and while task 2 has calls left
C20_Witness ==
    /\ gb.pc = "loop"
    /\ gb.task[1].at = "write"
    /\ gb.task[1].call.op = "update_feature_flag"
    /\ gb.task[2].calls = 1
    /\ gb.task[2].raised = 0
    /\ gb.client # create_experiment(GrowthBookClient, "exp1", Nothing,
                                     DefaultTrafficPercent).self

(***************************************************************************)
(* Cancellation.  The caller cancels the task of a run (Task.cancel): the  *)
(* event loop throws CancelledError into the coroutine at the await it is  *)
(* suspended in.  Neither the stage methods nor handle_event has a try     *)
(* statement, so the exception leaves handle_event.                        *)
(***************************************************************************)
RunCancel(r) ==
    /\ runs.pc = "up"
    /\ runs.frame[r].at \in Nodes
    /\ runs.frame[r].pending # NoPending
    /\ ~runs.frame[r].cancelled
    /\ runs' = [runs EXCEPT !.frame[r].cancelled = TRUE,
                            !.frame[r].at = "raised",
                            !.frame[r].failure = "CancelledError",
                            !.frame[r].pending = NoPending]
    /\ UNCHANGED <<state, pc, visited, failure, auction, gb>>

NextCancel ==
    \/ NextRuns
    \/ \E r \in Runs : RunCancel(r)

SpecCancel == InitRuns /\ [][NextCancel]_vars

\* C21: a run that is cancelled advances to no further stage and returns
\* the partial state accumulated so far, with "canceled" appended to errors:
\* the step that delivers the cancellation ends the run by a return whose
\* decisions and actions are those written so far and whose errors are the
\* errors so far followed by "canceled".
C21_CancelReturnsPartial ==
    [][\A r \in Runs :
          (runs.pc = "up" /\ ~runs.frame[r].cancelled /\ runs'.frame[r].cancelled) =>
              LET sofar == runs.heap[Cell(r)]
                  f == runs'.frame[r]
              IN  /\ f.at = "returned"
                  /\ f.failure = NoneVal
                  /\ f.result # Nothing
                  /\ f.result.decisions = sofar.decisions
                  /\ f.result.actions = sofar.actions
                  /\ f.result.errors = Append(sofar.errors, "canceled")]_vars

(***************************************************************************)
(* Properties of the stage decisions                                       *)
(***************************************************************************)
\* the actions the stage `key` returned in run s
StageActions(s, key) == state[s].decisions[key].actions

IsRouteAction(a) == a.webhook = "webhooks/route_and_sla"

\* C22: the routing stage emits a "route and set SLA" action exactly when
\* the classify category is lead-related and emits nothing for every other
\* category; the owner is the workspace's high-fit owner when the payload's
\* icp_score is 70 or more and the default owner otherwise.
C22_RoutingForLeads ==
    \A s \in Strategies :
        "routing" \in DOMAIN state[s].decisions =>
            LET emitted == StageActions(s, "routing")
                routing == WorkspaceFile[state[s].workspace_id].routing
                p == state[s].event_payload
                high == /\ "icp_score" \in DOMAIN p
                        /\ \/ /\ "int" \in DOMAIN p["icp_score"]
                              /\ p["icp_score"].int >= 70
                           \/ /\ "text" \in DOMAIN p["icp_score"]
                              /\ p["icp_score"].text = "70"
            IN  IF Category(s) = "lead_created_or_updated"
                THEN /\ Len(emitted) = 1
                     /\ IsRouteAction(emitted[1])
                     /\ emitted[1].payload.owner =
                            IF high THEN GetOrNone(routing, "high_fit_owner")
                            ELSE GetOrNone(routing, "default_owner")
                ELSE emitted = <<>>

\* the required-field table of a workspace: its own, or the built-in one
RequiredFields(w) ==
    IF "definition_of_done" \in DOMAIN WorkspaceFile[w].thresholds
    THEN WorkspaceFile[w].thresholds["definition_of_done"]
    ELSE DefaultDefinitionOfDone

\* the stage a payload declares, in lower case
DeclaredStage(p) ==
    Lower(IF "stage" \in DOMAIN p /\ p["stage"] # "" THEN p["stage"]
          ELSE IF "lifecycle_stage" \in DOMAIN p THEN p["lifecycle_stage"]
          ELSE "")

\* field f is missing from payload p or empty in it
MissingOrEmpty(p, f) == f \notin DOMAIN p \/ p[f] = ""

\* m lists exactly the elements of `required` that satisfy Test, once each,
\* in the order they have in `required`
ListsInOrder(m, required, Test(_)) ==
    /\ Range(m) = {required[i] : i \in {j \in DOMAIN required : Test(required[j])}}
    /\ \A i, j \in DOMAIN m : i < j =>
          \E a, b \in DOMAIN required : a < b /\ required[a] = m[i] /\ required[b] = m[j]

ActionsTo(emitted, w) == SelectSeq(emitted, LAMBDA a : a.webhook = w)

\* d is what follows the first "@" of cs
FollowsFirstAt(d, cs) ==
    \E i \in DOMAIN cs :
        /\ cs[i] = "@"
        /\ \A j \in 1..(i - 1) : cs[j] # "@"
        /\ d = SubSeq(cs, i + 1, Len(cs))

\* C24 as stated: a "backfill domain" action exactly when the payload has an
\* email but no domain, a "flag duplicate" action exactly when the payload is
\* flagged a suspected duplicate, the two independent of each other.
C24_HygieneAsStated ==
    \A s \in Strategies :
        "hygiene" \in DOMAIN state[s].decisions =>
            LET emitted == StageActions(s, "hygiene")
                p == state[s].event_payload
                has_email == "email" \in DOMAIN p /\ p["email"] # <<>>
                has_domain == "domain" \in DOMAIN p /\ p["domain"] # <<>>
            IN  /\ Len(ActionsTo(emitted, "webhooks/hygiene_backfill"))
                      = (IF has_email /\ ~has_domain THEN 1 ELSE 0)
                /\ Len(ActionsTo(emitted, "webhooks/dedupe_flag"))
                      = (IF "suspected_duplicate" \in DOMAIN p /\ p["suspected_duplicate"]
                         THEN 1 ELSE 0)

\* C24, amended: a "backfill domain" action exactly when the payload's email,
\* stripped and lower-cased, contains an "@" and the payload has no domain
\* (none, or blank), with domain the part of that email after its first "@";
\* a "flag duplicate" action exactly when the payload is flagged a suspected
\* duplicate; the stage emits nothing else, the backfill action first.
C24_HygieneActions ==
    \A s \in Strategies :
        "hygiene" \in DOMAIN state[s].decisions =>
            LET emitted == StageActions(s, "hygiene")
                p == state[s].event_payload
                email == IF "email" \in DOMAIN p THEN LowerChars(Strip(p["email"])) ELSE <<>>
                has_domain == "domain" \in DOMAIN p /\ Strip(p["domain"]) # <<>>
                backfill == "@" \in Range(email) /\ ~has_domain
                flagged == "suspected_duplicate" \in DOMAIN p /\ p["suspected_duplicate"]
                n == (IF backfill THEN 1 ELSE 0) + (IF flagged THEN 1 ELSE 0)
            IN  /\ Len(emitted) = n
                /\ backfill =>
                      /\ emitted[1].webhook = "webhooks/hygiene_backfill"
                      /\ FollowsFirstAt(emitted[1].payload.domain, email)
                /\ flagged => emitted[n].webhook = "webhooks/dedupe_flag"

\* a run has passed the hygiene stage with both actions: an email without a
\* domain on a payload flagged a suspected duplicate
C24_Witness ==
    \E s \in Strategies :
        /\ "hygiene" \in DOMAIN state[s].decisions
        /\ Len(StageActions(s, "hygiene")) = 2
        /\ StageActions(s, "hygiene")[1].payload.domain = <<"b", ".", "c">>

(***************************************************************************)
(* The endpoint (gtm.py, lines 16 to 35) after handle_event has returned:  *)
(* with execute_actions it posts the webhook actions to n8n one after the  *)
(* other, each post awaited, and puts the answers in result["executed"].   *)
(* An answer is represented by the request it answers.  A post that fails  *)
(* (N8N_BASE_URL unset, a transport fault, an error status) raises out of  *)
(* the endpoint.                                                           *)
(***************************************************************************)
\* the actions the loop of lines 28 to 32 posts
Webhooks(actions) == SelectSeq(actions, LAMBDA a : a.type = "n8n_webhook")

\* the action the loop posts next, given the answers collected so far
NextWebhook(actions, executed) ==
    IF Len(executed) < Len(Webhooks(actions))
    THEN Webhooks(actions)[Len(executed) + 1] ELSE Nothing

\* line 23: execute_actions is false, the result is returned as it is; or it
\* is true and the loop starts with executed = []
Respond(s) ==
    /\ pc[s] = "returned"
    /\ \E execute_actions \in BOOLEAN :
           IF execute_actions
           THEN /\ state' = [state EXCEPT ![s] = Put(@, "executed", <<>>)]
                /\ pc' = [pc EXCEPT ![s] = "l28"]
           ELSE /\ pc' = [pc EXCEPT ![s] = "responded"]
                /\ UNCHANGED state
    /\ UNCHANGED <<visited, failure, auction, gb, runs>>

\* lines 28 to 32: gateway.trigger_webhook(action["webhook"], payload) answers
\* or raises
TriggerWebhook(s) ==
    /\ pc[s] = "l28"
    /\ LET a == NextWebhook(state[s].actions, state[s].executed)
       IN  /\ a # Nothing
           /\ \E answered \in BOOLEAN :
                  IF answered
                  THEN /\ state' = [state EXCEPT ![s] =
                              Put(@, "executed",
                                  Append(state[s].executed,
                                         [webhook |-> a.webhook, payload |-> a.payload]))]
                       /\ UNCHANGED <<pc, failure>>
                  ELSE /\ pc' = [pc EXCEPT ![s] = "raised"]
                       /\ failure' = [failure EXCEPT ![s] = "HTTPError"]
                       /\ UNCHANGED state
    /\ UNCHANGED <<visited, auction, gb, runs>>

\* lines 33 and 35: result["executed"] = executed; return result
RespondExecuted(s) ==
    /\ pc[s] = "l28"
    /\ NextWebhook(state[s].actions, state[s].executed) = Nothing
    /\ pc' = [pc EXCEPT ![s] = "responded"]
    /\ UNCHANGED <<state, visited, failure, auction, gb, runs>>

NextExecute ==
    \/ Next
    \/ \E s \in Strategies : Respond(s)
    \/ \E s \in Strategies : TriggerWebhook(s)
    \/ \E s \in Strategies : RespondExecuted(s)

SpecExecute == Init /\ [][NextExecute]_vars

RECURSIVE Concat(_)
\* the lists of a sequence of lists, one after the other
Concat(lists) == IF lists = <<>> THEN <<>> ELSE Head(lists) \o Concat(Tail(lists))

\* the action list the stage returned in run s; the classifier returns none
Returned(s, stage) ==
    LET d == state[s].decisions[DecisionKey(stage)]
    IN  IF "actions" \in DOMAIN d THEN d.actions ELSE <<>>

\* C25: the actions list is exactly the concatenation, in the order the
\* stages ran, of the action lists the visited stages returned, nothing
\* reordered, dropped or de-duplicated; and with execute_actions the webhooks
\* are posted once per action in that order: the answers collected so far
\* are those of the first actions of the list, and of all of them when the
\* endpoint responds.
C25_ActionsConcatenated ==
    \A s \in Strategies :
        /\ pc[s] # "raised" =>
              state[s].actions = Concat([i \in DOMAIN visited[s] |-> Returned(s, visited[s][i])])
        /\ "executed" \in DOMAIN state[s] =>
              /\ Len(state[s].executed) <= Len(state[s].actions)
              /\ \A i \in DOMAIN state[s].executed :
                    /\ state[s].executed[i].webhook = state[s].actions[i].webhook
                    /\ state[s].executed[i].payload = state[s].actions[i].payload
              /\ pc[s] = "responded" => Len(state[s].executed) = Len(state[s].actions)

\* the endpoint has responded after posting the actions of a run in which the
\* onboarding and the reporting stage each returned an action of the same
\* type with the same payload, and both were posted
C25_Witness ==
    \E s \in Strategies :
        /\ pc[s] = "responded"
        /\ "executed" \in DOMAIN state[s]
        /\ "onboarding" \in DOMAIN state[s].decisions
        /\ \E a \in Range(Returned(s, "onboarding")), b \in Range(Returned(s, "reporting")) :
              /\ a.type = b.type
              /\ a.payload = b.payload
              /\ \E i, j \in DOMAIN state[s].executed :
                    /\ i < j
                    /\ state[s].executed[i].webhook = a.webhook
                    /\ state[s].executed[j].webhook = b.webhook

\* C26: no stage appends to errors: in every run of handle_event errors is
\* empty at every stage boundary, and the ops stage of a run returns no
\* ops-alert action.
C26_ErrorsStayEmpty ==
    \A s \in Strategies :
        /\ state[s].errors = <<>>
        /\ \A i \in DOMAIN state[s].actions : ~IsOpsAlert(state[s].actions[i])
        /\ "ops" \in DOMAIN state[s].decisions => StageActions(s, "ops") = <<>>

\* a run has returned with actions of earlier stages, its ops stage having
\* returned none
C26_Witness ==
    \E s \in Strategies :
        /\ pc[s] = "returned"
        /\ "ops" \in DOMAIN state[s].decisions
        /\ StageActions(s, "ops") = <<>>
        /\ Len(state[s].actions) >= 3

\* C27: the onboarding stage never emits both a "create onboarding tasks"
\* and a "go-live handoff" action for one payload, so it emits at most two
\* actions in a run.
C27_TasksOrHandoff ==
    \A s \in Strategies :
        "onboarding" \in DOMAIN state[s].decisions =>
            LET emitted == StageActions(s, "onboarding")
            IN  /\ ~ /\ ActionsTo(emitted, "webhooks/create_onboarding_tasks") # <<>>
                     /\ ActionsTo(emitted, "webhooks/go_live_handoff") # <<>>
                /\ Len(emitted) <= 2

\* the onboarding stage has returned two actions, the go-live handoff one of
\* them
C27_Witness ==
    \E s \in Strategies :
        /\ "onboarding" \in DOMAIN state[s].decisions
        /\ Len(StageActions(s, "onboarding")) = 2
        /\ ActionsTo(StageActions(s, "onboarding"), "webhooks/go_live_handoff") # <<>>

(***************************************************************************)
(* Properties of the flag registry                                         *)
(***************************************************************************)
\* the keys of the flags in the registry of client c
FlagKeysOf(c) == {c._features[i].key : i \in DOMAIN c._features}

VariantsOf(c, key) ==
    [u \in UserIds |-> get_experiment_variant(c, key, u).result]

\* C29: the status transitions have no guards: create_experiment leaves the
\* experiment in draft whatever was registered under the key, also a running
\* one; start_experiment on a registered key leaves it running and
\* stop_experiment leaves it stopped, from any status.  Every registered
\* experiment is draft, running or stopped, never archived, and an experiment
\* that was stopped while running and is started again gives every user the
\* variant the user had when it was stopped.
C29_StatusTransitions ==
    [][/\ \A i \in DOMAIN gb'.client._experiments :
             gb'.client._experiments[i].status \in {"draft", "running", "stopped"}
       /\ IsCall("create_experiment")
             => /\ ~gb'.ret.raised
                /\ Get(gb'.client._experiments, gb'.ret.args.key).status = "draft"
       /\ \A op \in {"start_experiment", "stop_experiment"} :
             (IsCall(op) /\ Has(gb.client._experiments, gb'.ret.args.key))
             => /\ ~gb'.ret.raised
                /\ Get(gb'.client._experiments, gb'.ret.args.key).status
                      = (IF op = "start_experiment" THEN "running" ELSE "stopped")
       /\ (/\ IsCall("start_experiment")
           /\ Has(gb.client._experiments, gb'.ret.args.key)
           /\ Get(gb.client._experiments, gb'.ret.args.key).status = "stopped"
           /\ gb.assigned # Nothing)
             => VariantsOf(gb'.client, gb'.ret.args.key) = gb.assigned]_vars

\* an experiment stopped while running was started again, after it had given
\* two of its users different variants
C29_Witness ==
    /\ gb.pc = "up"
    /\ gb.ret.op = "start_experiment"
    /\ ~gb.ret.raised
    /\ gb.assigned # Nothing
    /\ Has(gb.client._experiments, gb.ret.args.key)
    /\ Get(gb.client._experiments, gb.ret.args.key).status = "running"
    /\ Get(gb.client._experiments, gb.ret.args.key).ended_at # Nothing
    /\ \E u, v \in UserIds :
          /\ gb.assigned[u] # NoneVal
          /\ gb.assigned[v] # NoneVal
          /\ gb.assigned[u] # gb.assigned[v]

(***************************************************************************)
(* Properties of the reads of the flag registry                            *)
(***************************************************************************)
\* the keys of the flags of the client c that are stale at clock now
StaleKeys(c, now, days) ==
    {c._features[i].key : i \in {j \in DOMAIN c._features :
                                    is_stale(c._features[j], now, days)}}

\* C30: get_stale_flags, get_feature_flag and get_feature_flags leave every
\* flag's last_evaluated and the evaluation log as they were, and is_on on a
\* key that is not registered returns false, registers no flag and logs
\* nothing; after a listing of the stale flags the same flags are stale.
C30_ReadsLeaveStaleness ==
    [][/\ \A op \in {"get_stale_flags", "get_feature_flag", "get_feature_flags"} :
             IsCall(op)
             => /\ ~gb'.ret.raised
                /\ gb'.client._features = gb.client._features
                /\ gb'.client._evaluation_log = gb.client._evaluation_log
       /\ IsCall("get_stale_flags")
             => \A days \in {0, 1, DefaultStaleDays} :
                   StaleKeys(gb'.client, gb'.now, days) = StaleKeys(gb.client, gb.now, days)
       /\ (IsCall("is_on") /\ ~Has(gb.client._features, gb'.ret.args.key))
             => /\ ~gb'.ret.raised
                /\ Result(gb'.ret) = FALSE
                /\ gb'.client._features = gb.client._features
                /\ gb'.client._evaluation_log = gb.client._evaluation_log]_vars

\* get_stale_flags listed a flag that was evaluated, and the flag is in the
\* registry with the time of its evaluation and is still stale
C30_Witness ==
    /\ gb.pc = "up"
    /\ gb.ret.op = "get_stale_flags"
    /\ ~gb.ret.raised
    /\ gb.client._evaluation_log # <<>>
    /\ \E i \in DOMAIN gb.client._features :
          LET f == gb.client._features[i]
          IN  /\ f.last_evaluated # Nothing
              /\ is_stale(f, gb.now, gb.ret.args.days)
              /\ \E j \in DOMAIN Result(gb.ret) : Result(gb.ret)[j].key = f.key

====
